---- MODULE Spec2Model ----
(***************************************************************************)
(* Model of the PO2 test bench: the ground-truth matching and scoring      *)
(* engine (modules/ground_truth.py), the curation state store              *)
(* (modules/db.py), the curation pages that drive it                       *)
(* (Silver_to_Gold_Curation.py, golden_admin.py), the finding extraction   *)
(* (modules/parsers.py) and the test-case runner (modules/components.py).  *)
(***************************************************************************)
EXTENDS Integers, Sequences, FiniteSets, TLC

VARIABLES
    \* ---- scoring engine (modules/ground_truth.py) ----
    gt_df,           \* the ground-truth table: a sequence of rows
    gt_keys,         \* the key set built by load_ground_truth
    findings_list,   \* the findings handed to calculate_gt_metrics
    tc_number,       \* the test case being scored
    metrics,         \* the dict calculate_gt_metrics returned (or NoMetrics)
    query,           \* the arguments (key set included) of the last direct is_ground_truth call
    is_gt,           \* what that call returned
    score_pc,        \* "input" -> "loaded" -> "scored"
    \* ---- persistence layer (modules/db.py) ----
    db,              \* the collections golden_outputs, golden_deletions, golden_category_status
    now,             \* datetime.utcnow()
    call,            \* the last call of a store operation: its name, identities, and the keys stored before it
    \* ---- curation page (Silver_to_Gold_Curation.py) ----
    cache,           \* st.cache_data of the curation page's server process
    rendered,        \* what the last script run of either page read and drew; NotRendered while a st.rerun() is pending
    active_categories, \* the allowlist ACTIVE_CATEGORIES the curation page is deployed with
    \* ---- finding extraction (modules/parsers.py and its callers) ----
    analysis,        \* the analysis result handed to the extraction: source pass -> bucket -> sections
    extraction,      \* the last extraction: the caller, and what it returned or raised
    \* ---- test bench (modules/components.py) ----
    results,         \* st.session_state["results"]: file name -> result dict
    runs,            \* the persisted runs: run name -> the results save_run received last
    batch,           \* where render_tc_buttons is: the pending items, the loop index, the next line
    summary,         \* agg_gt of the last _render_summary_level
    \* ---- async client of the analysis service (test_harness.py) ----
    poll             \* where _post_analyze is: the file, the seconds slept, the polls made, the last status

score_vars == <<gt_df, gt_keys, findings_list, tc_number, metrics, query, is_gt, score_pc>>

store_vars == <<db, now, call>>

curation_vars == <<cache, rendered, active_categories>>

extract_vars == <<analysis, extraction>>

run_vars == <<results, runs, batch, summary>>

poll_vars == <<poll>>

harness_vars == <<extract_vars, run_vars, poll_vars>>

vars == <<score_vars, store_vars, curation_vars, harness_vars>>

(***************************************************************************)
(* Bounds of the model.                                                    *)
(***************************************************************************)
MaxGtRows == 2
MaxFindings == 2
MaxClock == 1
MaxBatch == 2
MaxSections == 2
MaxItems == 2

(***************************************************************************)
(* Python string operations, computed character by character.              *)
(***************************************************************************)
Uppers == "ABCDEFGHIJKLMNOPQRSTUVWXYZ"
Lowers == "abcdefghijklmnopqrstuvwxyz"
Digits == "0123456789"

CharAt(s, i) == SubSeq(s, i, i)

CharsOf(alphabet) == { CharAt(alphabet, i) : i \in 1..Len(alphabet) }

\* the 1-based position of the one-character string c in alphabet
IndexIn(c, alphabet) == CHOOSE i \in 1..Len(alphabet) : CharAt(alphabet, i) = c

UpperChars == CharsOf(Uppers)
LowerChars == CharsOf(Lowers)
DigitChars == CharsOf(Digits)
ToLower == [c \in UpperChars |-> CharAt(Lowers, IndexIn(c, Uppers))]
ToUpper == [c \in LowerChars |-> CharAt(Uppers, IndexIn(c, Lowers))]
DigitOf == [c \in DigitChars |-> IndexIn(c, Digits) - 1]

LowerChar(c) == IF c \in UpperChars THEN ToLower[c] ELSE c
UpperChar(c) == IF c \in LowerChars THEN ToUpper[c] ELSE c

RECURSIVE Lower(_)
\* str.lower()
Lower(s) == IF Len(s) = 0 THEN "" ELSE LowerChar(CharAt(s, 1)) \o Lower(SubSeq(s, 2, Len(s)))

RECURSIVE Upper(_)
\* str.upper()
Upper(s) == IF Len(s) = 0 THEN "" ELSE UpperChar(CharAt(s, 1)) \o Upper(SubSeq(s, 2, Len(s)))

IsSpace(c) == c = " "

RECURSIVE LStrip(_)
LStrip(s) == IF Len(s) > 0 /\ IsSpace(CharAt(s, 1)) THEN LStrip(SubSeq(s, 2, Len(s))) ELSE s

RECURSIVE RStrip(_)
RStrip(s) == IF Len(s) > 0 /\ IsSpace(CharAt(s, Len(s))) THEN RStrip(SubSeq(s, 1, Len(s) - 1)) ELSE s

\* str.strip()
Strip(s) == RStrip(LStrip(s))

\* the slice s[:n]
Slice(s, n) == IF Len(s) <= n THEN s ELSE SubSeq(s, 1, n)

\* the test "needle in hay" on strings
Contains(needle, hay) ==
    \E i \in 0..(Len(hay) - Len(needle)) : SubSeq(hay, i + 1, i + Len(needle)) = needle

IsDigits(s) == Len(s) > 0 /\ \A i \in 1..Len(s) : CharAt(s, i) \in DigitChars

RECURSIVE DigitsValue(_)
DigitsValue(s) ==
    IF Len(s) = 0 THEN 0
    ELSE 10 * DigitsValue(SubSeq(s, 1, Len(s) - 1)) + DigitOf[CharAt(s, Len(s))]

(***************************************************************************)
(* Values of a page cell: an integer, a string, or None / NaN / missing.   *)
(***************************************************************************)
IntPage(n) == [kind |-> "int", n |-> n, s |-> ""]
StrPage(s) == [kind |-> "str", n |-> 0, s |-> s]
NonePage == [kind |-> "none", n |-> 0, s |-> ""]

\* pd.notna(page)
NotNa(page) == page.kind # "none"

\* int(page), with the ValueError of a non-numeric string caught and turned into 0
IntOrZero(page) ==
    IF page.kind = "int" THEN page.n
    ELSE IF page.kind = "str" /\ IsDigits(Strip(page.s)) THEN DigitsValue(Strip(page.s))
    ELSE 0

\* str(page).strip() is not empty
PageHasText(page) == page.kind = "int" \/ (page.kind = "str" /\ Len(Strip(page.s)) > 0)

(***************************************************************************)
(* modules/ground_truth.py                                                 *)
(***************************************************************************)
\* the number of characters of a sentence kept in a lookup key
PrefixLen == 50

\* page of a ground-truth row: int(page_number) if pd.notna(page_number) else 0
GtRowPage(row) == IF NotNa(row.page_number) THEN row.page_number.n ELSE 0

RECURSIVE load_ground_truth_keys(_, _)
\* the loop of load_ground_truth over gt_df.iterrows(), from row i on
load_ground_truth_keys(df, i) ==
    IF i > Len(df) THEN {}
    ELSE LET row == df[i]
             tc == Strip(row.tc_id)
             sentence == Strip(row.sentence)
             rest == load_ground_truth_keys(df, i + 1)
         IN  IF Len(tc) > 0 /\ Len(sentence) > 0
             THEN {<<tc, GtRowPage(row), Lower(Slice(sentence, PrefixLen))>>} \cup rest
             ELSE rest

load_ground_truth(df) == load_ground_truth_keys(df, 1)

\* is_ground_truth with the fallback scan left out
is_ground_truth_exact_only(tc_no, page, sentence, keys) ==
    /\ keys # {}
    /\ <<Strip(tc_no),
         IF NotNa(page) /\ PageHasText(page) THEN IntOrZero(page) ELSE 0,
         Slice(Lower(Strip(sentence)), PrefixLen)>> \in keys

\* is_ground_truth that does not compare the test case
is_ground_truth_any_tc(tc_no, page, sentence, keys) ==
    \E k \in keys :
        /\ k[2] = (IF NotNa(page) /\ PageHasText(page) THEN IntOrZero(page) ELSE 0)
        /\ Len(k[3]) > 0
        /\ Contains(k[3], Lower(Strip(sentence)))

is_ground_truth(tc_no, page, sentence, keys) ==
    IF keys = {} THEN FALSE
    ELSE LET tc == Strip(tc_no)
             pg == IF NotNa(page) /\ PageHasText(page) THEN IntOrZero(page) ELSE 0
             sent == Lower(Strip(sentence))
         IN  IF <<tc, pg, Slice(sent, PrefixLen)>> \in keys THEN TRUE
             ELSE \E k \in keys :
                     /\ tc = k[1]
                     /\ pg = k[2]
                     /\ Len(k[3]) > 0
                     /\ Contains(k[3], sent)

\* tc_gt: the rows of gt_df whose stripped, upper-cased TC Id is tc_number.upper()
TcGt(df, tc_no) == SelectSeq(df, LAMBDA row : Upper(Strip(row.tc_id)) = Upper(tc_no))

RECURSIVE valid_themes(_, _)
\* the loop that collects the lower-cased categories of tc_gt, from row i on
valid_themes(tc_gt, i) ==
    IF i > Len(tc_gt) THEN {}
    ELSE LET category == Strip(tc_gt[i].category)
             rest == valid_themes(tc_gt, i + 1)
         IN  IF Len(category) > 0 THEN {Lower(category)} \cup rest ELSE rest

\* the page of a finding as the scoring loop normalises it
FindingPage(finding) == IF NotNa(finding.page) THEN IntOrZero(finding.page) ELSE 0

\* classify with the category check left out: every finding is graded
classify_all_graded(finding, themes, tc_no, keys) ==
    IF is_ground_truth(tc_no, IntPage(FindingPage(finding)), Strip(finding.sentence), keys)
    THEN "TP" ELSE "FP"

\* the classification of one finding in the scoring loop
classify(finding, themes, tc_no, keys) ==
    LET page == FindingPage(finding)
        sentence == Strip(finding.sentence)
        category == Lower(Strip(finding.category))
    IN  IF category \notin themes THEN "Suppressed"
        ELSE IF is_ground_truth(tc_no, IntPage(page), sentence, keys) THEN "TP"
        ELSE "FP"

match_type(status) ==
    IF status = "Suppressed" THEN "Category not in GT"
    ELSE IF status = "TP" THEN "Exact match"
    ELSE "Not in GT"

RECURSIVE score_loop(_, _, _, _, _, _)
\* "for finding in findings_list": the counters and detailed_findings after
\* the findings from index i on are added to acc
score_loop(fl, i, themes, tc_no, keys, acc) ==
    IF i > Len(fl) THEN acc
    ELSE LET status == classify(fl[i], themes, tc_no, keys)
             entry == [finding |-> fl[i], gt_status |-> status, match_type |-> match_type(status)]
             next == [tp |-> acc.tp + (IF status = "TP" THEN 1 ELSE 0),
                      fp |-> acc.fp + (IF status = "FP" THEN 1 ELSE 0),
                      suppressed |-> acc.suppressed + (IF status = "Suppressed" THEN 1 ELSE 0),
                      detailed_findings |-> Append(acc.detailed_findings, entry)]
         IN  score_loop(fl, i + 1, themes, tc_no, keys, next)

\* a ratio num/den kept as a pair; 0.0 is <<0, 1>>
Ratio(num, den) == <<num, den>>

\* num / den that never gives more than 1
safe_div_capped(num, den) ==
    IF den > 0 THEN (IF num > den THEN Ratio(1, 1) ELSE Ratio(num, den)) ELSE Ratio(0, 1)

\* num / den without the guard on the denominator
safe_div_unguarded(num, den) == Ratio(num, den)

\* num / den if den > 0 else 0.0
safe_div(num, den) == IF den > 0 THEN Ratio(num, den) ELSE Ratio(0, 1)

\* 2 * (p * r) / (p + r) if (p + r) > 0 else 0.0
f1_score(p, r) ==
    IF p[1] * r[2] + r[1] * p[2] > 0
    THEN Ratio(2 * p[1] * r[1], p[1] * r[2] + r[1] * p[2])
    ELSE Ratio(0, 1)

\* fn capped at zero
false_negatives_capped(expected_count, tp) ==
    IF expected_count - tp < 0 THEN 0 ELSE expected_count - tp

\* fn = expected_count - tp
false_negatives(expected_count, tp) == expected_count - tp

calculate_gt_metrics(fl, keys, df, tc_no) ==
    LET tc_gt == TcGt(df, tc_no)
        expected_count == Len(tc_gt)
        themes == valid_themes(tc_gt, 1)
        counted == score_loop(fl, 1, themes, tc_no, keys,
                              [tp |-> 0, fp |-> 0, suppressed |-> 0, detailed_findings |-> <<>>])
        tp == counted.tp
        fp == counted.fp
        fn == false_negatives(expected_count, tp)
        total_found == Len(fl)
        total_relevant == tp + fp
        precision == safe_div(tp, total_relevant)
        recall == safe_div(tp, expected_count)
    IN  [tp |-> tp,
         fp |-> fp,
         fn |-> fn,
         suppressed |-> counted.suppressed,
         expected |-> expected_count,
         found |-> total_found,
         relevant_found |-> total_relevant,
         precision |-> precision,
         recall |-> recall,
         f1 |-> f1_score(precision, recall),
         detailed_findings |-> counted.detailed_findings]

(***************************************************************************)
(* Inputs of the scoring engine: ground-truth rows and findings.           *)
(***************************************************************************)
MisleadingShort == "Misleading"
MisleadingFull == "Misleading or Unsubstantiated Claims"
Disclosures == "Inadequate or Missing Disclosures"
Typographical == "Typographical Errors"

GuaranteedGt == "Guaranteed 20% returns"
GuaranteedFinding == "Guaranteed 20% returns every year without risk"
\* a ground-truth sentence longer than PrefixLen, and a finding that agrees
\* with it on the first PrefixLen characters only
LongGt == "Past performance is a reliable indicator of future results for investors"
LongFinding == "Past performance is a reliable indicator of future gains, always"

GtRow(tc, page, category, sentence) ==
    [tc_id |-> tc, page_number |-> page, category |-> category, sentence |-> sentence]

Finding(page, category, sentence) ==
    [page |-> page, category |-> category, sentence |-> sentence]

GtRows ==
    { GtRow("TC01", IntPage(3), MisleadingShort, GuaranteedGt),
      GtRow("TC01", NonePage, MisleadingFull, LongGt),
      GtRow("tc01 ", NonePage, Disclosures, "No risk disclosure"),
      GtRow("TC02", IntPage(3), " misleading", GuaranteedGt) }

Findings ==
    { Finding(IntPage(3), MisleadingFull, GuaranteedFinding),
      Finding(StrPage(""), " MISLEADING ", LongFinding),
      Finding(NonePage, Typographical, "Teh fund"),
      Finding(IntPage(3), MisleadingShort, "We promise GUARANTEED 20% returns"),
      Finding(IntPage(3), Disclosures, GuaranteedFinding) }

TcNumbers == {"TC01", "TC02"}

SeqsUpTo(S, n) == UNION { [1..k -> S] : k \in 0..n }

NoMetrics == [none |-> TRUE]
NoQuery == [none |-> TRUE]

(***************************************************************************)
(* modules/config.py and modules/parsers.py                                *)
(***************************************************************************)
\* the ordered dict CATEGORY_THEMES as a sequence of <<category, theme>>
CATEGORY_THEMES ==
    << <<MisleadingFull, "T1 - Misleading">>,
       <<"Performance Presentation & Reporting", "T2 - Performance">>,
       <<Disclosures, "T3 - Disclosures">>,
       <<"Testimonials & Endorsements", "T4 - Testimonials">>,
       <<"Digital & Distribution Controls", "T5 - Digital">>,
       <<"Comparisons and Competitive Claims", "T6 - Comparisons">>,
       <<"Ratings & Data Context Validation", "T7 - Rankings">>,
       <<"Improper Use of Third-Party Content & Intellectual Property", "T8 - Third-Party">>,
       <<"Editorial (Non-Regulatory)", "T9 - Editorial">> >>

ACTIVE_CATEGORIES == {MisleadingFull}

RECURSIVE FirstWord(_)
\* key.split()[0] of a key that does not start with a space
FirstWord(s) ==
    IF Len(s) = 0 \/ IsSpace(CharAt(s, 1)) THEN ""
    ELSE CharAt(s, 1) \o FirstWord(SubSeq(s, 2, Len(s)))

\* cat_to_theme: the first key that contains cat or is contained in it, else
\* the first key whose first word occurs in cat, else cat[:25]
cat_to_theme(cat) ==
    LET byName == { i \in 1..Len(CATEGORY_THEMES) :
                      \/ Contains(Lower(CATEGORY_THEMES[i][1]), Lower(cat))
                      \/ Contains(Lower(cat), Lower(CATEGORY_THEMES[i][1])) }
        byWord == { i \in 1..Len(CATEGORY_THEMES) :
                      Contains(Lower(FirstWord(CATEGORY_THEMES[i][1])), Lower(cat)) }
        first(S) == CHOOSE i \in S : \A j \in S : i <= j
    IN  IF byName # {} THEN CATEGORY_THEMES[first(byName)][2]
        ELSE IF byWord # {} THEN CATEGORY_THEMES[first(byWord)][2]
        ELSE Slice(cat, 25)

\* the artifact buckets, in the order ARTIFACT_TYPES lists them
ARTIFACT_TYPES ==
    <<"misleading_artifact", "performance_artifact", "disclosure_artifact",
      "testimonial_artifact", "digital_artifact", "comparison_artifact",
      "ranking_artifact", "thirdparty_artifact", "editorial_artifact",
      "typo_artifact">>

Section(page, category, sub_bucket, sentence) ==
    [page_number |-> page, category |-> category, sub_bucket |-> sub_bucket, sentence |-> sentence]

\* A JSON object is a record; a JSON value that is not an object (a string, a
\* list, null) is NonObject(kind).  {} is the record with no field.
NonObject(kind) == [json |-> kind]

EmptyDict == <<>>

\* isinstance(v, dict)
isinstance_dict(v) == "json" \notin DOMAIN v

\* d.get(key, default)
get(d, key, default) == IF key \in DOMAIN d THEN d[key] ELSE default

\* what a call gives back: the list it returns, or the exception it raises
Returned(rows) == [raised |-> "none", rows |-> rows]

Raised(exception) == [raised |-> exception, rows |-> <<>>]

\* art_key.replace("_artifact", "") of a key of ARTIFACT_TYPES
artifact_type(art_key) == SubSeq(art_key, 1, Len(art_key) - Len("_artifact"))

\* JSON null, and the kind of a scalar: a boolean, null, else a string
JsonNull == NonObject("null")

is_bool(v) == ToString(v) \in {"TRUE", "FALSE"}

is_none(v) == ToString(v) = ToString(JsonNull)

\* bool(v): a boolean is itself, None is False, a string is True unless empty
bool(v) == IF is_bool(v) THEN v ELSE IF is_none(v) THEN FALSE ELSE v # ""

\* v or ""
or_empty(v) == IF bool(v) THEN v ELSE ""

\* the dict rows.append receives for section s at index idx
finding_row(doc_id, source_key, art_key, idx, s) ==
    [_doc_id |-> doc_id, _source |-> source_key, _art_key |-> art_key, _section_idx |-> idx,
     artifact_type |-> artifact_type(art_key),
     sentence |-> get(s, "sentence", ""),
     page |-> get(s, "page_number", StrPage("")),
     rule_citation |-> get(s, "rule_citation", ""),
     recommendations |-> get(s, "recommendations", ""),
     category |-> get(s, "category", "N/A"),
     observations |-> get(s, "observations", ""),
     summary |-> get(s, "summary", ""),
     accept |-> bool(get(s, "accept", FALSE)),
     accept_with_changes |-> bool(get(s, "accept_with_changes", FALSE)),
     reject |-> bool(get(s, "reject", FALSE)),
     reject_reason |-> or_empty(get(s, "reject_reason", ""))]

RECURSIVE rows_of_sections(_, _, _, _, _, _)
\* "for idx, s in enumerate(art.get('sections', []))", from 0-based index idx
\* on, appending to rows; s.get of a section that is not a dict raises
rows_of_sections(doc_id, source_key, art_key, sections, idx, rows) ==
    IF idx >= Len(sections) THEN Returned(rows)
    ELSE IF ~isinstance_dict(sections[idx + 1]) THEN Raised("AttributeError")
    ELSE rows_of_sections(doc_id, source_key, art_key, sections, idx + 1,
             Append(rows, finding_row(doc_id, source_key, art_key, idx, sections[idx + 1])))

RECURSIVE rows_of_buckets(_, _, _, _, _)
\* "for art_key in ARTIFACT_TYPES", from bucket k on, with the outcome so far
rows_of_buckets(doc_id, data, source_key, k, sofar) ==
    IF sofar.raised # "none" \/ k > Len(ARTIFACT_TYPES) THEN sofar
    ELSE IF ~isinstance_dict(get(data, ARTIFACT_TYPES[k], EmptyDict))
         THEN rows_of_buckets(doc_id, data, source_key, k + 1, sofar)
    ELSE rows_of_buckets(doc_id, data, source_key, k + 1,
             rows_of_sections(doc_id, source_key, ARTIFACT_TYPES[k],
                 get(get(data, ARTIFACT_TYPES[k], EmptyDict), "sections", <<>>), 0, sofar.rows))

\* extract_findings_for_review that numbers the sections across the buckets
extract_findings_for_review_running_idx(doc_id, data, source_key) ==
    LET out == rows_of_buckets(doc_id, data, source_key, 1, Returned(<<>>))
    IN  [out EXCEPT !.rows = [i \in 1..Len(@) |-> [@[i] EXCEPT !._section_idx = i - 1]]]

\* extract_findings_for_review(doc_id, data, source_key)
extract_findings_for_review(doc_id, data, source_key) ==
    rows_of_buckets(doc_id, data, source_key, 1, Returned(<<>>))

\* "not data or not isinstance(data, dict)"
no_source_data(data) == ~isinstance_dict(data) \/ data = EmptyDict

\* sections[idx].get("sub_bucket", "") if idx < len(sections) else ""
sub_bucket_of(sections, idx) ==
    IF idx < Len(sections) THEN get(sections[idx + 1], "sub_bucket", "") ELSE ""

\* "for r in rows": the document's fields and the section's sub_bucket added
golden_row(doc, data, r) ==
    r @@ [tc_number |-> get(doc, "tc_number", "TC?"),
          filename |-> get(doc, "filename", ""),
          run_label |-> get(doc, "run_label", ""),
          sub_bucket |-> sub_bucket_of(get(get(data, r._art_key, EmptyDict), "sections", <<>>),
                                       r._section_idx)]

\* lines 151-163 of extract_golden_findings, once data and actual_source are chosen
golden_rows(doc, data, actual_source, out) ==
    IF out.raised # "none" THEN out
    ELSE Returned([i \in 1..Len(out.rows) |-> golden_row(doc, data, out.rows[i])])

\* extract_golden_findings(doc, source): the pass named by source, or the other
\* one when that pass is missing, empty or not a dict
extract_golden_findings(doc, source) ==
    LET api_response == get(doc, "api_response", EmptyDict)
        fallback == IF source = "sequential_reasoner" THEN "raw_output" ELSE "sequential_reasoner"
        first == get(api_response, source, EmptyDict)
        second == get(api_response, fallback, EmptyDict)
    IN  IF ~no_source_data(first)
        THEN golden_rows(doc, first, source, extract_findings_for_review(doc._id, first, source))
        ELSE IF ~no_source_data(second)
        THEN golden_rows(doc, second, fallback,
                         extract_findings_for_review(doc._id, second, fallback))
        ELSE Returned(<<>>)

\* the source passes, in the order the callers try them
SOURCE_KEYS == <<"raw_output", "sequential_reasoner">>

\* _process_single_tc that extends findings_list with the findings of every pass
select_findings_list_merged(full_response, doc_id, k) ==
    Returned(
        (IF no_source_data(get(full_response, "raw_output", EmptyDict)) THEN <<>>
         ELSE extract_findings_for_review(doc_id, get(full_response, "raw_output", EmptyDict),
                                          "raw_output").rows)
        \o
        (IF no_source_data(get(full_response, "sequential_reasoner", EmptyDict)) THEN <<>>
         ELSE extract_findings_for_review(doc_id, get(full_response, "sequential_reasoner", EmptyDict),
                                          "sequential_reasoner").rows))

RECURSIVE select_findings_list(_, _, _)
\* _process_single_tc, lines 47-56: the findings of the first pass, from pass k
\* on, that is a non-empty dict and gives at least one finding
select_findings_list(full_response, doc_id, k) ==
    IF k > Len(SOURCE_KEYS) THEN Returned(<<>>)
    ELSE IF no_source_data(get(full_response, SOURCE_KEYS[k], EmptyDict))
         THEN select_findings_list(full_response, doc_id, k + 1)
    ELSE IF extract_findings_for_review(doc_id, get(full_response, SOURCE_KEYS[k], EmptyDict),
                                        SOURCE_KEYS[k]) = Returned(<<>>)
         THEN select_findings_list(full_response, doc_id, k + 1)
    ELSE extract_findings_for_review(doc_id, get(full_response, SOURCE_KEYS[k], EmptyDict),
                                     SOURCE_KEYS[k])

\* Counter: one more occurrence of cat
count_category(categories, cat) ==
    IF cat \in DOMAIN categories
    THEN [categories EXCEPT ![cat] = @ + 1]
    ELSE categories @@ (cat :> 1)

RECURSIVE count_sections(_, _, _)
\* "for s in art.get('sections', [])", from section i on, with the outcome so far
count_sections(sections, i, sofar) ==
    IF sofar.raised # "none" \/ i > Len(sections) THEN sofar
    ELSE IF ~isinstance_dict(sections[i])
         THEN [sofar EXCEPT !.raised = "AttributeError"]
    ELSE CHOOSE out \in
             { count_sections(sections, i + 1, counted) :
                 counted \in { [sofar EXCEPT
                                   !.categories = count_category(@, get(sections[i], "category",
                                                                        "Uncategorized")),
                                   !.total = @ + 1] } } : TRUE

RECURSIVE count_buckets(_, _, _)
\* "for art_key in ARTIFACT_TYPES" of parse_findings_summary, from bucket k on
count_buckets(source_data, k, sofar) ==
    IF sofar.raised # "none" \/ k > Len(ARTIFACT_TYPES) THEN sofar
    ELSE IF ~isinstance_dict(get(source_data, ARTIFACT_TYPES[k], EmptyDict))
         THEN count_buckets(source_data, k + 1, sofar)
    ELSE CHOOSE out \in
             { count_buckets(source_data, k + 1, counted) :
                 counted \in { count_sections(get(get(source_data, ARTIFACT_TYPES[k], EmptyDict),
                                                  "sections", <<>>), 1, sofar) } } : TRUE

RECURSIVE count_sources(_, _, _)
\* "for source_key in [...]" of parse_findings_summary, from pass k on:
\* "if total > 0: break" after a pass
count_sources(data, k, sofar) ==
    IF sofar.raised # "none" \/ sofar.total > 0 \/ k > Len(SOURCE_KEYS) THEN sofar
    ELSE IF ~isinstance_dict(get(data, SOURCE_KEYS[k], EmptyDict))
         THEN count_sources(data, k + 1, sofar)
    ELSE CHOOSE out \in
             { count_sources(data, k + 1, counted) :
                 counted \in { count_buckets(get(data, SOURCE_KEYS[k], EmptyDict), 1, sofar) } } : TRUE

\* parse_findings_summary of a response text that parses to the dict data
parse_findings_summary(data) ==
    count_sources(data, 1, [raised |-> "none", categories |-> EmptyDict, total |-> 0])

(***************************************************************************)
(* modules/components.py: running test cases and aggregating the results.  *)
(***************************************************************************)
RECURSIVE digits_from(_, _)
\* the run of digits of name that starts at position i
digits_from(name, i) ==
    IF i > Len(name) \/ CharAt(name, i) \notin DigitChars THEN ""
    ELSE CharAt(name, i) \o digits_from(name, i + 1)

RECURSIVE tc_search(_, _)
\* re.search(r"(TC\d+)", name), from position i on: the digits of the first
\* match, "" when there is none
tc_search(name, i) ==
    IF i + 2 > Len(name) THEN ""
    ELSE IF SubSeq(name, i, i + 1) = "TC" /\ CharAt(name, i + 2) \in DigitChars
         THEN digits_from(name, i + 2)
    ELSE tc_search(name, i + 1)

\* short_name(filename)[0]: f"TC{int(digits):02d}", or "TC?" without a match
short_name_tc(filename) ==
    IF tc_search(filename, 1) = "" THEN "TC?"
    ELSE IF DigitsValue(tc_search(filename, 1)) < 10
         THEN "TC0" \o ToString(DigitsValue(tc_search(filename, 1)))
    ELSE "TC" \o ToString(DigitsValue(tc_search(filename, 1)))

\* what submit_from_mongo / submit_document gives: a response with a status
\* code, a text and the value json.loads makes of the text (NonObject("invalid")
\* when the text is no JSON), or the exception requests.post raised
Response(status_code, text, body) ==
    [raised |-> "none", status_code |-> status_code, text |-> text, body |-> body]

RequestFailed(exception) ==
    [raised |-> exception, status_code |-> 0, text |-> "", body |-> EmptyDict]

\* str(e) of the exceptions a test case can end with
str_e(exception) ==
    CASE exception = "ReadTimeout" -> "Read timed out. (read timeout=120)"
      [] exception = "JSONDecodeError" -> "Expecting value: line 1 column 1 (char 0)"
      [] exception = "AttributeError" -> "'str' object has no attribute 'get'"
      [] OTHER -> exception

\* resp.text[:5000]
ResponseLimit == 5000

\* None for mongo_doc_id is <<>>, an id is <<id>>
NoDoc == <<>>

\* run_name or "unknown"
run_name_or_unknown(run_name) == IF run_name = "" THEN "unknown" ELSE run_name

\* what _process_single_tc ends with: the dict it returns, or an exception
Gave(result) == [raised |-> "none", result |-> result]

Threw(exception) == [raised |-> exception, result |-> EmptyDict]

\* the dict _process_single_tc returns
result_dict(resp, success, findings, full_response, mongo_doc_id, gt_metrics, run_name, t) ==
    [status_code |-> resp.status_code,
     success |-> success,
     response |-> Slice(resp.text, ResponseLimit),
     findings |-> findings,
     full_response |-> full_response,
     mongo_doc_id |-> mongo_doc_id,
     gt_metrics |-> gt_metrics,
     run_name |-> run_name_or_unknown(run_name),
     timestamp |-> t]

\* the dict the except branch stores
failed_result(exception, run_name, t) ==
    [status_code |-> 0,
     success |-> FALSE,
     response |-> str_e(exception),
     findings |-> EmptyDict,
     full_response |-> EmptyDict,
     mongo_doc_id |-> NoDoc,
     gt_metrics |-> NoMetrics,
     run_name |-> run_name_or_unknown(run_name),
     timestamp |-> t]

\* "gt_keys is not None and gt_df is not None and not gt_df.empty"
has_gt(keys, df) == df # <<>>

\* lines 46-59: gt_metrics of the findings selected, None without findings
gt_metrics_of(selected, keys, df, tc) ==
    IF selected.rows = <<>> THEN NoMetrics
    ELSE calculate_gt_metrics(selected.rows, keys, df, tc)

\* lines 46-71 for a 200 response whose findings were selected and counted
scored_result(resp, mongo_doc_id, selected, counted, keys, df, tc, run_name, t) ==
    IF selected.raised # "none" THEN Threw(selected.raised)
    ELSE IF counted.raised # "none" THEN Threw(counted.raised)
    ELSE Gave(result_dict(resp, TRUE, counted.categories, resp.body, mongo_doc_id,
                          gt_metrics_of(selected, keys, df, tc), run_name, t))

\* _process_single_tc(item, use_mongo, gt_keys, gt_df, run_name) for the item
\* named name, when the service answers resp and the results collection
\* holds mongo_doc_id for the document
process_single_tc(name, resp, mongo_doc_id, keys, df, run_name, t) ==
    IF resp.raised # "none" THEN Threw(resp.raised)
    ELSE IF resp.status_code # 200
         THEN Gave(result_dict(resp, FALSE, EmptyDict, EmptyDict, NoDoc, NoMetrics, run_name, t))
    ELSE IF ~isinstance_dict(resp.body) THEN Threw("JSONDecodeError")
    ELSE scored_result(resp, mongo_doc_id,
             IF has_gt(keys, df)
             THEN select_findings_list(resp.body,
                      IF mongo_doc_id = NoDoc THEN "temp" ELSE mongo_doc_id[1], 1)
             ELSE Returned(<<>>),
             parse_findings_summary(resp.body),
             keys, df, short_name_tc(name), run_name, t)

\* the try / except around _process_single_tc that stores nothing when the
\* test case ends with an exception
record_result_success_only(res, name, outcome, run_name, t) ==
    IF outcome.raised # "none" THEN res
    ELSE (name :> outcome.result) @@ res

\* lines 116-131 and 163-177: st.session_state["results"][name] is the result,
\* or the failed entry when _process_single_tc raised
record_result(res, name, outcome, run_name, t) ==
    IF outcome.raised # "none"
    THEN (name :> failed_result(outcome.raised, run_name, t)) @@ res
    ELSE (name :> outcome.result) @@ res

\* line 95: the items whose name is not in results
pending_items(items, res) == SelectSeq(items, LAMBDA name : name \notin DOMAIN res)

\* the loop of Run All that goes on to the next test case without save_run
after_tc_no_save(b) ==
    IF b.i < Len(b.pending) THEN [b EXCEPT !.i = @ + 1, !.pc = "submit"]
    ELSE [b EXCEPT !.pc = "idle", !.pending = <<>>, !.i = 0]

\* lines 133-135: after the try / except of a test case comes save_run
after_tc(b) == [b EXCEPT !.pc = "save"]

\* lines 111 and 144: the next pending test case, or st.rerun() after the last
after_save(b) ==
    IF b.i < Len(b.pending) THEN [b EXCEPT !.i = @ + 1, !.pc = "submit"]
    ELSE [b EXCEPT !.pc = "idle", !.pending = <<>>, !.i = 0]

ZeroAgg ==
    [tp |-> 0, partial_tp |-> 0, fp |-> 0, fn |-> 0, suppressed |-> 0, weighted_tp |-> 0,
     expected |-> 0, found |-> 0, relevant_found |-> 0]

\* agg_gt that keeps the gt_metrics of the last result instead of the sum
add_gt_metrics_last(agg, m) ==
    [tp |-> m.tp, partial_tp |-> get(m, "partial_tp", 0), fp |-> m.fp, fn |-> m.fn,
     suppressed |-> m.suppressed, weighted_tp |-> get(m, "weighted_tp", 0),
     expected |-> m.expected, found |-> m.found,
     relevant_found |-> get(m, "relevant_found", m.tp + m.fp)]

\* lines 225-236: agg_gt with the gt_metrics m of one result added
add_gt_metrics(agg, m) ==
    [tp |-> agg.tp + m.tp,
     partial_tp |-> agg.partial_tp + get(m, "partial_tp", 0),
     fp |-> agg.fp + m.fp,
     fn |-> agg.fn + m.fn,
     suppressed |-> agg.suppressed + m.suppressed,
     weighted_tp |-> agg.weighted_tp + get(m, "weighted_tp", 0),
     expected |-> agg.expected + m.expected,
     found |-> agg.found + m.found,
     relevant_found |-> agg.relevant_found + get(m, "relevant_found", m.tp + m.fp)]

RECURSIVE agg_gt(_, _, _, _)
\* "for r in results.values()", lines 217-236, over the names in order from
\* the k-th on: the sums of the gt_metrics of the results that have some
agg_gt(res, names, k, agg) ==
    IF k > Len(names) THEN agg
    ELSE IF res[names[k]].gt_metrics = NoMetrics THEN agg_gt(res, names, k + 1, agg)
    ELSE agg_gt(res, names, k + 1, add_gt_metrics(agg, res[names[k]].gt_metrics))

RECURSIVE sum_counts(_, _, _)
\* the sum of the counts of a {category: count} dict, over the categories cats
sum_counts(findings, cats, total) ==
    IF cats = {} THEN total
    ELSE sum_counts(findings, cats \ {CHOOSE c \in cats : TRUE},
                    total + findings[CHOOSE c \in cats : TRUE])

RECURSIVE total_findings(_, _, _, _)
\* lines 217-221: total_findings over the successful results
total_findings(res, names, k, total) ==
    IF k > Len(names) THEN total
    ELSE IF ~res[names[k]].success THEN total_findings(res, names, k + 1, total)
    ELSE total_findings(res, names, k + 1,
             sum_counts(res[names[k]].findings, DOMAIN res[names[k]].findings, total))

\* the names of results in the order of items
names_of(res, items) == SelectSeq(items, LAMBDA name : name \in DOMAIN res)

\* _render_summary_level, lines 203-253: agg_gt, whether the ground-truth
\* block is shown, and the total of the findings by category
render_summary_level(res, items, keys, df) ==
    [agg_gt |-> IF has_gt(keys, df) THEN agg_gt(res, names_of(res, items), 1, ZeroAgg)
                ELSE ZeroAgg,
     has_gt |-> has_gt(keys, df),
     total_findings |-> total_findings(res, names_of(res, items), 1, 0)]

\* the run-level metrics save_run stores: the sums of tp, fp, fn, expected
\* and found over the test cases, and precision, recall and f1 of the sums
run_metrics(res, items) ==
    [tp |-> agg_gt(res, names_of(res, items), 1, ZeroAgg).tp,
     fp |-> agg_gt(res, names_of(res, items), 1, ZeroAgg).fp,
     fn |-> agg_gt(res, names_of(res, items), 1, ZeroAgg).fn,
     expected |-> agg_gt(res, names_of(res, items), 1, ZeroAgg).expected,
     found |-> agg_gt(res, names_of(res, items), 1, ZeroAgg).found,
     precision |-> safe_div(agg_gt(res, names_of(res, items), 1, ZeroAgg).tp,
                            agg_gt(res, names_of(res, items), 1, ZeroAgg).tp
                                + agg_gt(res, names_of(res, items), 1, ZeroAgg).fp),
     recall |-> safe_div(agg_gt(res, names_of(res, items), 1, ZeroAgg).tp,
                         agg_gt(res, names_of(res, items), 1, ZeroAgg).expected),
     f1 |-> f1_score(safe_div(agg_gt(res, names_of(res, items), 1, ZeroAgg).tp,
                              agg_gt(res, names_of(res, items), 1, ZeroAgg).tp
                                  + agg_gt(res, names_of(res, items), 1, ZeroAgg).fp),
                     safe_div(agg_gt(res, names_of(res, items), 1, ZeroAgg).tp,
                              agg_gt(res, names_of(res, items), 1, ZeroAgg).expected))]

\* save_run(run_name, results, prompt_label, run_by): upsert, by run name, of
\* the run with the results it was given and the metrics over them
save_run(store, run_name, res, items, t) ==
    (run_name :> [run_name |-> run_name,
                  results |-> res,
                  metrics |-> run_metrics(res, items),
                  test_cases_run |-> Cardinality(DOMAIN res),
                  timestamp |-> t]) @@ store

(***************************************************************************)
(* test_harness.py: the client of the asynchronous analysis endpoint and   *)
(* the button that runs one test case through it.                          *)
(***************************************************************************)
\* seconds between status checks, and the most seconds to wait for a result
POLL_INTERVAL == 10
POLL_TIMEOUT == 600

\* "while elapsed < POLL_TIMEOUT"
while_elapsed(elapsed) == elapsed < POLL_TIMEOUT

\* the poll loop that goes on whatever the status is
still_running_always(status) == TRUE

\* the negation of "status not in ('PENDING', 'STARTED', 'PROCESSING')"
still_running(status) == status \in {"PENDING", "STARTED", "PROCESSING"}

\* lines 212-218: the pass neither raises at raise_for_status nor returns
loop_goes_on(resp) == resp.raised = "none" /\ still_running(get(resp.body, "status", ""))

\* parse_findings_from_response(resp.text): {} for a text that is no JSON
parse_findings_from_response(body) ==
    IF ~isinstance_dict(body) THEN [raised |-> "none", categories |-> EmptyDict, total |-> 0]
    ELSE count_sources(body, 1, [raised |-> "none", categories |-> EmptyDict, total |-> 0])

\* the entry the run button stores for the response _post_analyze returned
harness_result(resp, t) ==
    [status_code |-> resp.status_code,
     success |-> resp.status_code = 200,
     response |-> Slice(resp.text, ResponseLimit),
     findings |-> IF resp.status_code = 200 THEN parse_findings_from_response(resp.body).categories
                  ELSE EmptyDict,
     timestamp |-> t]

\* the entry the except branch of the run button stores
harness_failed(exception, t) ==
    [status_code |-> 0, success |-> FALSE, response |-> str_e(exception), findings |-> EmptyDict,
     timestamp |-> t]

\* lines 331-351: st.session_state["results"][name] after submit_from_mongo
\* returned resp or raised
harness_record(res, name, resp, t) ==
    IF resp.raised # "none" THEN (name :> harness_failed(resp.raised, t)) @@ res
    ELSE IF resp.status_code = 200 /\ parse_findings_from_response(resp.body).raised # "none"
         THEN (name :> harness_failed(parse_findings_from_response(resp.body).raised, t)) @@ res
    ELSE (name :> harness_result(resp, t)) @@ res

(***************************************************************************)
(* modules/db.py: the collections are sequences of documents in natural    *)
(* (insertion) order; update_one and delete_one act on the first match.    *)
(***************************************************************************)
\* the identity of a finding row or of a tombstone
Identity(doc_id, source, art_key, section_idx) ==
    [doc_id |-> doc_id, source |-> source, art_key |-> art_key, section_idx |-> section_idx]

RowIdentity(r) == Identity(r._doc_id, r._source, r._art_key, r._section_idx)

TombstoneIdentity(d) == Identity(d.doc_id, d.source, d.art_key, d.section_idx)

\* the positions of the tombstones that match the identity filter
matching_identity(coll, id) == { i \in 1..Len(coll) : TombstoneIdentity(coll[i]) = id }

\* the positions of the status documents that match {"category": category}
matching_category(coll, category) == { i \in 1..Len(coll) : coll[i].category = category }

\* the first match, the one update_one and delete_one act on
FirstOf(S) == CHOOSE i \in S : \A j \in S : i <= j

\* REVIEW_FIELDS of modules/config.py
REVIEW_FIELDS == <<"accept", "accept_with_changes", "reject", "reject_reason">>

\* the "$set" of save_finding on a section: the four review fields of row,
\* every other field of the section as it is
set_review_fields(s, row) ==
    [f \in { REVIEW_FIELDS[k] : k \in 1..Len(REVIEW_FIELDS) } |-> row[f]] @@ s

\* save_finding that writes the section after the one the row names
save_finding_next_section(d, row) ==
    LET coll == d.PO2_testing
        hits == { i \in 1..Len(coll) : coll[i]._id = row._doc_id }
        at == IF row._section_idx + 2
                    <= Len(coll[FirstOf(hits)][row._source][row._art_key].sections)
              THEN row._section_idx + 2 ELSE 1
    IN  IF hits = {} THEN d
        ELSE [d EXCEPT !.PO2_testing[FirstOf(hits)][row._source][row._art_key].sections[at] =
                 set_review_fields(@, row)]

\* save_finding(row): update_one({"_id": doc_id}, {"$set": update}) on the
\* results collection, update naming the four review fields under
\* "<_source>.<_art_key>.sections.<_section_idx>"
save_finding(d, row) ==
    LET coll == d.PO2_testing
        hits == { i \in 1..Len(coll) : coll[i]._id = row._doc_id }
    IN  IF hits = {} THEN d
        ELSE [d EXCEPT !.PO2_testing[FirstOf(hits)][row._source][row._art_key]
                            .sections[row._section_idx + 1] = set_review_fields(@, row)]

\* "any(orig[f] != edit[f] for f in REVIEW_FIELDS)"
review_differs(orig, edit) == \E k \in 1..Len(REVIEW_FIELDS) : orig[REVIEW_FIELDS[k]] # edit[REVIEW_FIELDS[k]]

RECURSIVE save_all_changes(_, _, _, _, _)
\* save_all_changes(original_df, edited_df), from row k on, with the rows
\* saved so far: the store it leaves and the count it returns
save_all_changes(d, original_df, edited_df, k, changed) ==
    IF k > Len(edited_df) THEN [d |-> d, changed |-> changed]
    ELSE IF k > Len(original_df) THEN save_all_changes(d, original_df, edited_df, k + 1, changed)
    ELSE IF review_differs(original_df[k], edited_df[k])
         THEN CHOOSE out \in
                  { save_all_changes(saved, original_df, edited_df, k + 1, changed + 1) :
                      saved \in { save_finding(d, edited_df[k]) } } : TRUE
    ELSE save_all_changes(d, original_df, edited_df, k + 1, changed)


\* the number of characters of the sentence kept in a tombstone
PreviewLen == 120

\* the document soft_delete_finding $sets
Tombstone(id, category, sub_bucket, sentence, t) ==
    [doc_id |-> id.doc_id, source |-> id.source, art_key |-> id.art_key,
     section_idx |-> id.section_idx, category |-> category, sub_bucket |-> sub_bucket,
     sentence_preview |-> Slice(sentence, PreviewLen), deleted_at |-> t]

\* the legacy physical delete of db.py: $unset the section, then $pull the hole
delete_golden_finding(d, id) ==
    [d EXCEPT !.golden_outputs =
        [i \in 1..Len(@) |->
            IF @[i]._id = id.doc_id /\ id.art_key \in DOMAIN @[i].api_response[id.source]
            THEN [@[i] EXCEPT !.api_response[id.source][id.art_key].sections =
                    SubSeq(@, 1, id.section_idx) \o SubSeq(@, id.section_idx + 2, Len(@))]
            ELSE @[i]]]

\* soft_delete_finding that inserts a new tombstone on every call
soft_delete_finding_insert(d, id, category, sub_bucket, sentence, t) ==
    [d EXCEPT !.golden_deletions = Append(@, Tombstone(id, category, sub_bucket, sentence, t))]

\* soft_delete_finding that also removes the section from the source document
soft_delete_finding_physical(d, id, category, sub_bucket, sentence, t) ==
    delete_golden_finding(
        [d EXCEPT !.golden_deletions = Append(@, Tombstone(id, category, sub_bucket, sentence, t))],
        id)

\* soft_delete_finding: update_one(identity filter, $set, upsert=True)
soft_delete_finding(d, id, category, sub_bucket, sentence, t) ==
    LET coll == d.golden_deletions
        hits == matching_identity(coll, id)
        doc == Tombstone(id, category, sub_bucket, sentence, t)
    IN  [d EXCEPT !.golden_deletions =
            IF hits = {} THEN Append(coll, doc) ELSE [coll EXCEPT ![FirstOf(hits)] = doc]]

RECURSIVE soft_delete_batch(_, _, _)
\* soft_delete_batch: soft_delete_finding for each element, in order
soft_delete_batch(d, deletions, t) ==
    IF deletions = <<>> THEN d
    ELSE LET x == Head(deletions)
         IN  soft_delete_batch(
                 soft_delete_finding(d, RowIdentity(x), x.category, x.sub_bucket, x.sentence, t),
                 Tail(deletions), t)

\* undo_soft_delete with the filter on the document alone
undo_soft_delete_by_doc(d, id) ==
    [d EXCEPT !.golden_deletions = SelectSeq(@, LAMBDA x : x.doc_id # id.doc_id)]

\* undo_soft_delete: delete_one(identity filter)
undo_soft_delete(d, id) ==
    LET coll == d.golden_deletions
        hits == matching_identity(coll, id)
    IN  [d EXCEPT !.golden_deletions =
            IF hits = {} THEN coll
            ELSE SubSeq(coll, 1, FirstOf(hits) - 1) \o SubSeq(coll, FirstOf(hits) + 1, Len(coll))]

load_deletion_keys(d) == { TombstoneIdentity(d.golden_deletions[i]) : i \in 1..Len(d.golden_deletions) }

\* lock_category that inserts a new status document on every call
lock_category_insert(d, category, findings_before, findings_after, t) ==
    [d EXCEPT !.golden_category_status =
        Append(@, [category |-> category, status |-> "locked", locked_at |-> t,
                   findings_before |-> findings_before, findings_after |-> findings_after,
                   deletions |-> findings_before - findings_after, unlocked_at |-> <<>>])]

\* lock_category that leaves an already locked category as it is
lock_category_once(d, category, findings_before, findings_after, t) ==
    LET coll == d.golden_category_status
        hits == matching_category(coll, category)
    IN  IF hits # {} /\ coll[FirstOf(hits)].status = "locked" THEN d
        ELSE [d EXCEPT !.golden_category_status =
                IF hits = {}
                THEN Append(coll, [category |-> category, status |-> "locked", locked_at |-> t,
                                   findings_before |-> findings_before,
                                   findings_after |-> findings_after,
                                   deletions |-> findings_before - findings_after,
                                   unlocked_at |-> <<>>])
                ELSE [coll EXCEPT ![FirstOf(hits)] =
                        [@ EXCEPT !.status = "locked", !.locked_at = t,
                                  !.findings_before = findings_before,
                                  !.findings_after = findings_after,
                                  !.deletions = findings_before - findings_after]]]

\* lock_category: update_one({"category": category}, $set, upsert=True); the
\* field the $set does not name, unlocked_at, keeps its value (<<>> when the
\* document has no such field, <<t>> when it has)
lock_category(d, category, findings_before, findings_after, t) ==
    LET coll == d.golden_category_status
        hits == matching_category(coll, category)
        fresh == [category |-> category, status |-> "locked", locked_at |-> t,
                  findings_before |-> findings_before, findings_after |-> findings_after,
                  deletions |-> findings_before - findings_after, unlocked_at |-> <<>>]
    IN  [d EXCEPT !.golden_category_status =
            IF hits = {} THEN Append(coll, fresh)
            ELSE [coll EXCEPT ![FirstOf(hits)] =
                    [fresh EXCEPT !.unlocked_at = coll[FirstOf(hits)].unlocked_at]]]

\* unlock_category that also clears the counts of the last lock
unlock_category_reset(d, category, t) ==
    [d EXCEPT !.golden_category_status =
        [i \in 1..Len(@) |->
            IF @[i].category = category
            THEN [@[i] EXCEPT !.status = "unlocked", !.unlocked_at = <<t>>,
                              !.findings_before = 0, !.findings_after = 0, !.deletions = 0]
            ELSE @[i]]]

\* unlock_category: update_one({"category": category}, $set) without upsert
unlock_category(d, category, t) ==
    LET coll == d.golden_category_status
        hits == matching_category(coll, category)
    IN  [d EXCEPT !.golden_category_status =
            IF hits = {} THEN coll
            ELSE [coll EXCEPT ![FirstOf(hits)] =
                    [@ EXCEPT !.status = "unlocked", !.unlocked_at = <<t>>]]]

\* get_category_statuses: {d["category"]: d for d in coll.find()}
get_category_statuses(d) ==
    LET coll == d.golden_category_status
        cats == { coll[i].category : i \in 1..Len(coll) }
        last(c) == CHOOSE i \in matching_category(coll, c) :
                      \A j \in matching_category(coll, c) : j <= i
    IN  [c \in cats |-> coll[last(c)]]

(***************************************************************************)
(* The stored golden baseline: two documents of run golden_v1.  One        *)
(* finding of TC01 carries the short name of its category, which           *)
(* cat_to_theme maps to the theme of the full name.                        *)
(***************************************************************************)
GoldenDoc(id, tc, buckets) ==
    [_id |-> id, tc_number |-> tc, run_label |-> "golden_v1",
     api_response |-> [raw_output |-> buckets]]

GoldenOutputs ==
    << GoldenDoc("d1", "TC01",
           [misleading_artifact |-> [sections |->
                << Section(IntPage(3), MisleadingFull, "Promissory", GuaranteedFinding),
                   Section(IntPage(4), MisleadingFull, "Promissory", "Returns are certain"),
                   Section(IntPage(5), MisleadingFull, "Exaggeration", "The best fund ever"),
                   Section(IntPage(6), MisleadingShort, "Promissory", "Risk-free income") >>],
            disclosure_artifact |-> [sections |->
                << Section(IntPage(2), Disclosures, "Risk", "No risk is mentioned") >>]]),
       GoldenDoc("d2", "TC02",
           [misleading_artifact |-> [sections |->
                << Section(IntPage(1), MisleadingFull, "Promissory", "You cannot lose") >>]]) >>

InitialDb ==
    [golden_outputs |-> GoldenOutputs, golden_deletions |-> <<>>, golden_category_status |-> <<>>]

(***************************************************************************)
(* The flattening and soft-delete mask of the curation pages.              *)
(***************************************************************************)
\* [r for r in golden_records if r.get("tc_number", "") in selected_tcs]
filter_records(golden_records, selected_tcs) ==
    SelectSeq(golden_records, LAMBDA r : r.tc_number \in selected_tcs)

RECURSIVE all_rows(_)
\* all_rows.extend(extract_golden_findings(doc, source="raw_output")) for each doc
all_rows(filtered) ==
    IF filtered = <<>> THEN <<>>
    ELSE extract_golden_findings(Head(filtered), "raw_output").rows \o all_rows(Tail(filtered))

\* the mask left out: every row is kept
soft_delete_mask_off(df, deletion_keys) == df

\* df = df[mask]: the rows whose identity is not in deletion_keys
soft_delete_mask(df, deletion_keys) ==
    SelectSeq(df, LAMBDA r : RowIdentity(r) \notin deletion_keys)

\* the rows a page draws for the selected test cases, given the deletion keys it read
curated_view(golden_records, selected_tcs, deletion_keys) ==
    soft_delete_mask(all_rows(filter_records(golden_records, selected_tcs)), deletion_keys)

(***************************************************************************)
(* One run of a curation page's script: Silver_to_Gold_Curation.py (app    *)
(* "curation") and golden_admin.py (app "admin").                          *)
(***************************************************************************)
\* the characters of the stored strings in code-point order
CodePoints == " %&()-0123456789ABCDEFGHIJKLMNOPQRSTUVWXYZ_abcdefghijklmnopqrstuvwxyz"

CodePointOf == [c \in CharsOf(CodePoints) |-> IndexIn(c, CodePoints)]

RECURSIVE StrLess(_, _)
\* a < b on strings
StrLess(a, b) ==
    IF Len(b) = 0 THEN FALSE
    ELSE IF Len(a) = 0 THEN TRUE
    ELSE IF CharAt(a, 1) = CharAt(b, 1) THEN StrLess(SubSeq(a, 2, Len(a)), SubSeq(b, 2, Len(b)))
    ELSE CodePointOf[CharAt(a, 1)] < CodePointOf[CharAt(b, 1)]

\* is_ground_truth of the curation page: int(page) is not guarded, so a page
\* that is a non-numeric string raises ValueError
page_is_ground_truth(tc_no, page, sentence, keys) ==
    IF keys = {} THEN FALSE
    ELSE IF page.kind = "str" /\ ~IsDigits(Strip(page.s)) THEN "ValueError"
    ELSE LET tc == Strip(tc_no)
             pg == IF NotNa(page) THEN IntOrZero(page) ELSE 0
             sent == Lower(Strip(sentence))
         IN  IF <<tc, pg, Slice(sent, PrefixLen)>> \in keys THEN TRUE
             ELSE \E k \in keys :
                     /\ tc = k[1]
                     /\ pg = k[2]
                     /\ Len(k[3]) > 0
                     /\ Contains(k[3], sent)

\* a call of the curation page's is_ground_truth and how it ends: int(page)
\* is reached only with a key set that is not empty
call_page_is_ground_truth(tc_no, page, sentence, keys) ==
    IF keys # {} /\ page.kind = "str" /\ ~IsDigits(Strip(page.s))
    THEN [raised |-> "ValueError", value |-> FALSE]
    ELSE [raised |-> "none", value |-> page_is_ground_truth(tc_no, page, sentence, keys)]

\* ground_truth.csv as the curation page's loader reads it
CurationGt == << GtRow("TC01", IntPage(3), MisleadingShort, GuaranteedGt) >>

\* the rows of the stored documents, and the columns the pages add to them:
\* df["theme"] = df["category"].apply(cat_to_theme) and, for the keys of the
\* curation page's ground truth, df["is_gt"]
StoredRows ==
    LET rows == all_rows(GoldenOutputs)
    IN  { rows[i] : i \in 1..Len(rows) }

theme_column == [c \in { r.category : r \in StoredRows } |-> cat_to_theme(c)]

is_gt_column ==
    [r \in StoredRows |->
        page_is_ground_truth(r.tc_number, r.page, r.sentence, load_ground_truth(CurationGt)) = TRUE]

\* the order of sort_values(["theme", "sub_bucket", "tc_number"])
RowLess(a, b) ==
    \/ StrLess(a.theme, b.theme)
    \/ a.theme = b.theme /\ StrLess(a.sub_bucket, b.sub_bucket)
    \/ a.theme = b.theme /\ a.sub_bucket = b.sub_bucket /\ StrLess(a.tc_number, b.tc_number)

\* row put into the sorted rows, before the rows with an equal key
insert_sorted(row, sorted) ==
    SelectSeq(sorted, LAMBDA r : RowLess(r, row))
        \o <<row>> \o SelectSeq(sorted, LAMBDA r : ~RowLess(r, row))

RECURSIVE sort_values(_)
\* the rows in ascending order, rows with equal keys in their given order
sort_values(df) ==
    IF df = <<>> THEN <<>> ELSE insert_sorted(Head(df), sort_values(Tail(df)))

\* a row of df: the extracted row with its theme and is_gt columns; the
\* admin page has no is_gt column and protects no row
DfRow(r, app) ==
    [_doc_id |-> r._doc_id, _source |-> r._source, _art_key |-> r._art_key,
     _section_idx |-> r._section_idx, sentence |-> r.sentence, page |-> r.page,
     category |-> r.category, sub_bucket |-> r.sub_bucket, tc_number |-> r.tc_number,
     theme |-> theme_column[r.category],
     is_gt |-> IF app = "curation" THEN is_gt_column[r] ELSE FALSE]

\* pd.DataFrame(all_rows) with the two columns added
flag_rows(app, rows) == [i \in 1..Len(rows) |-> DfRow(rows[i], app)]

\* the category named on a theme's lock button: the first key of
\* CATEGORY_THEMES with that theme, else the theme itself
cat_name(theme) ==
    LET S == { i \in 1..Len(CATEGORY_THEMES) : CATEGORY_THEMES[i][2] = theme }
    IN  IF S = {} THEN theme ELSE CATEGORY_THEMES[FirstOf(S)][1]

\* cat_statuses.get(cat, {}).get("status") == "locked"
is_locked(cat_statuses, cat) ==
    cat \in DOMAIN cat_statuses /\ cat_statuses[cat].status = "locked"

locked_cats(cat_statuses) == { cat \in DOMAIN cat_statuses : cat_statuses[cat].status = "locked" }

NoExport == [offered |-> FALSE, rows |-> <<>>]

\* the download button without the filter on locked categories
golden_csv_unfiltered(app, df, cat_statuses) ==
    IF app = "curation" /\ df # <<>> THEN [offered |-> TRUE, rows |-> df] ELSE NoExport

\* the download button of the curation page; the admin page has none
golden_csv(app, df, cat_statuses) ==
    LET locked_df == SelectSeq(df, LAMBDA r : r.category \in locked_cats(cat_statuses))
    IN  IF app = "curation" /\ locked_cats(cat_statuses) # {} /\ locked_df # <<>>
        THEN [offered |-> TRUE, rows |-> locked_df]
        ELSE NoExport

\* display_df of the Curate tab and browse_df of the Browse Details tab
display_df(df) == sort_values(SelectSeq(df, LAMBDA r : r.category \in active_categories))

browse_df(df) == SelectSeq(df, LAMBDA r : r.category \in active_categories)

\* theme_df: the rows of a theme in display_df, masked once more
theme_df(display, theme, deletion_keys) ==
    soft_delete_mask(SelectSeq(display, LAMBDA r : r.theme = theme), deletion_keys)

\* what a script run draws from the flagged rows all_rows, the masked rows
\* df and the sorted active rows display
page_views(app, selected_tcs, deletion_keys, cat_statuses, rows, df, display) ==
    [drawn |-> TRUE, app |-> app, selected_tcs |-> selected_tcs,
     deletion_keys |-> deletion_keys, cat_statuses |-> cat_statuses,
     all_rows |-> rows, df |-> df,
     curate |-> soft_delete_mask(display, deletion_keys),
     browse |-> IF display = <<>> THEN <<>> ELSE browse_df(df),
     golden_csv |-> golden_csv(app, df, cat_statuses)]

\* the same from the flagged rows and df, and from the flagged rows alone
masked_views(app, selected_tcs, deletion_keys, cat_statuses, rows, df) ==
    page_views(app, selected_tcs, deletion_keys, cat_statuses, rows, df, display_df(df))

flagged_views(app, selected_tcs, deletion_keys, cat_statuses, rows) ==
    masked_views(app, selected_tcs, deletion_keys, cat_statuses, rows,
                 soft_delete_mask(rows, deletion_keys))

\* what one script run reads and draws, given what its two readers returned
script_run(app, golden_records, selected_tcs, deletion_keys, cat_statuses) ==
    flagged_views(app, selected_tcs, deletion_keys, cat_statuses,
                  flag_rows(app, all_rows(filter_records(golden_records, selected_tcs))))

\* cached_deletion_keys() and cached_category_statuses() of the curation page
cached_deletion_keys ==
    IF cache.deletion_keys.hit THEN cache.deletion_keys.value ELSE load_deletion_keys(db)

cached_category_statuses ==
    IF cache.category_statuses.hit THEN cache.category_statuses.value ELSE get_category_statuses(db)

\* a cache entry of st.cache_data
Miss == [hit |-> FALSE]

Hit(value) == [hit |-> TRUE, value |-> value]

\* st.cache_data.clear()
NoCache == [deletion_keys |-> Miss, category_statuses |-> Miss]

\* no script run yet
NotRendered == [drawn |-> FALSE]

\* the store and the curation page as the scoring engine leaves them
Call(op, ids, before) == [op |-> op, ids |-> ids, before |-> before]

NoCall == Call("none", <<>>, {})

StoreIdle == db = InitialDb /\ now = 0 /\ call = NoCall

CurationIdle == cache = NoCache /\ rendered = NotRendered /\ active_categories = ACTIVE_CATEGORIES

\* the extraction and the test bench before anything was submitted
NoAnalysis == EmptyDict

NoExtraction == [caller |-> "none"]

NoOutcome == [raised |-> "none", status_code |-> 0, text |-> "", body |-> EmptyDict]

BatchIdle == [pc |-> "idle", pending |-> <<>>, i |-> 0, run_name |-> "", last |-> NoOutcome]

NoSummary == [none |-> TRUE]

ExtractIdle == analysis = NoAnalysis /\ extraction = NoExtraction

RunIdle == results = EmptyDict /\ runs = EmptyDict /\ batch = BatchIdle /\ summary = NoSummary

PollIdle == [pc |-> "idle", name |-> "", elapsed |-> 0, polls |-> 0, status |-> "", ended |-> "none"]

HarnessIdle == ExtractIdle /\ RunIdle /\ poll = PollIdle

ScoreInit ==
    /\ gt_df \in SeqsUpTo(GtRows, MaxGtRows)
    /\ findings_list \in SeqsUpTo(Findings, MaxFindings)
    /\ tc_number \in TcNumbers
    /\ gt_keys = {}
    /\ metrics = NoMetrics
    /\ query = NoQuery
    /\ is_gt = FALSE
    /\ score_pc = "input"
    /\ StoreIdle
    /\ CurationIdle
    /\ HarnessIdle

\* keys, gt_df = load_ground_truth()
LoadGroundTruth ==
    /\ score_pc = "input"
    /\ gt_keys' = load_ground_truth(gt_df)
    /\ score_pc' = "loaded"
    /\ UNCHANGED <<gt_df, findings_list, tc_number, metrics, query, is_gt, store_vars, curation_vars, harness_vars>>

\* gt_metrics = calculate_gt_metrics(findings_list, gt_keys, gt_df, tc)
CalculateGtMetrics ==
    /\ score_pc = "loaded"
    /\ metrics' = calculate_gt_metrics(findings_list, gt_keys, gt_df, tc_number)
    /\ score_pc' = "scored"
    /\ UNCHANGED <<gt_df, gt_keys, findings_list, tc_number, query, is_gt, store_vars, curation_vars, harness_vars>>

QueryTcs == {"TC01", " TC01", "tc01"}
QueryPages == {IntPage(3), IntPage(0), StrPage(" 3 "), StrPage(""), StrPage("n/a"), NonePage}
QuerySentences ==
    {GuaranteedFinding, LongFinding, "  No Risk Disclosure was made ", "GUARANTEED 20% RETURNS", "Teh fund"}

\* a direct call is_ground_truth(tc, page, sentence, gt_keys), with the key set
\* still empty or loaded, and the same call of the curation page's
\* is_ground_truth
IsGroundTruth ==
    /\ score_pc \in {"input", "loaded"}
    /\ query = NoQuery
    /\ \E tc \in QueryTcs, page \in QueryPages, sentence \in QuerySentences :
          /\ query' = [tc |-> tc, page |-> page, sentence |-> sentence, keys |-> gt_keys,
                        curation |-> call_page_is_ground_truth(tc, page, sentence, gt_keys)]
          /\ is_gt' = is_ground_truth(tc, page, sentence, gt_keys)
    /\ UNCHANGED <<gt_df, gt_keys, findings_list, tc_number, metrics, score_pc, store_vars, curation_vars, harness_vars>>

(***************************************************************************)
(* ScoreSpec: load the ground truth, then score one findings list.         *)
(* MatchSpec: load the ground truth and ask is_ground_truth directly.      *)
(***************************************************************************)
ScoreNext == LoadGroundTruth \/ CalculateGtMetrics

ScoreSpec == ScoreInit /\ [][ScoreNext]_vars

MatchInit ==
    /\ ScoreInit
    /\ findings_list = <<>>
    /\ tc_number = "TC01"

MatchNext == LoadGroundTruth \/ IsGroundTruth

MatchSpec == MatchInit /\ [][MatchNext]_vars

(***************************************************************************)
(* DeleteSpec: a client of modules/db.py calls the soft-delete and lock    *)
(* operations in any order while the clock advances.                       *)
(***************************************************************************)
ScoreIdle ==
    /\ gt_df = <<>>
    /\ gt_keys = {}
    /\ findings_list = <<>>
    /\ tc_number = "TC01"
    /\ metrics = NoMetrics
    /\ query = NoQuery
    /\ is_gt = FALSE
    /\ score_pc = "input"

DeleteInit == ScoreIdle /\ StoreIdle /\ CurationIdle /\ HarnessIdle

\* the row dicts a batch is made of: the first two rows of the first document
DeleteRows ==
    LET rows == SubSeq(extract_golden_findings(GoldenOutputs[1], "raw_output").rows, 1, 2)
    IN  { rows[i] : i \in 1..Len(rows) }

\* the arguments of a single call: a row's metadata or the defaults of the signature
DeleteArgs ==
    DeleteRows \cup { [r EXCEPT !.category = "", !.sub_bucket = "", !.sentence = ""] : r \in DeleteRows }

DeleteIds == { RowIdentity(r) : r \in DeleteRows }

LockArgs == { [category |-> MisleadingFull, findings_before |-> 2, findings_after |-> 1] }

SoftDeleteFinding ==
    /\ \E x \in DeleteArgs :
          /\ db' = soft_delete_finding(db, RowIdentity(x), x.category, x.sub_bucket, x.sentence, now)
          /\ call' = Call("soft_delete_finding", <<RowIdentity(x)>>, load_deletion_keys(db))
    /\ UNCHANGED <<now, score_vars, curation_vars, harness_vars>>

SoftDeleteBatch ==
    /\ \E deletions \in SeqsUpTo(DeleteRows, MaxBatch) :
          /\ db' = soft_delete_batch(db, deletions, now)
          /\ call' = Call("soft_delete_batch",
                          [i \in 1..Len(deletions) |-> RowIdentity(deletions[i])],
                          load_deletion_keys(db))
    /\ UNCHANGED <<now, score_vars, curation_vars, harness_vars>>

UndoSoftDelete ==
    /\ \E id \in DeleteIds :
          /\ db' = undo_soft_delete(db, id)
          /\ call' = Call("undo_soft_delete", <<id>>, load_deletion_keys(db))
    /\ UNCHANGED <<now, score_vars, curation_vars, harness_vars>>

LockCategory ==
    /\ \E a \in LockArgs :
          db' = lock_category(db, a.category, a.findings_before, a.findings_after, now)
    /\ call' = Call("lock_category", <<>>, load_deletion_keys(db))
    /\ UNCHANGED <<now, score_vars, curation_vars, harness_vars>>

UnlockCategory ==
    /\ \E a \in LockArgs : db' = unlock_category(db, a.category, now)
    /\ call' = Call("unlock_category", <<>>, load_deletion_keys(db))
    /\ UNCHANGED <<now, score_vars, curation_vars, harness_vars>>

\* time passes between two calls
Tick ==
    /\ now < MaxClock
    /\ now' = now + 1
    /\ UNCHANGED <<db, call, score_vars, curation_vars, harness_vars>>

DeleteNext ==
    \/ SoftDeleteFinding
    \/ SoftDeleteBatch
    \/ UndoSoftDelete
    \/ LockCategory
    \/ UnlockCategory
    \/ Tick

DeleteSpec == DeleteInit /\ [][DeleteNext]_vars

(***************************************************************************)
(* LockSpec: sessions call lock_category and unlock_category of            *)
(* modules/db.py on two categories, with the counts a page passes, in any  *)
(* order while the clock advances.  call records the last call made.       *)
(***************************************************************************)
LockCategories == { MisleadingFull, Disclosures }

\* (findings_before, findings_after) as a page counts them: after <= before
LockCounts == { <<2, 1>>, <<3, 1>>, <<2, 2>> }

LockCall(op, category, findings_before, findings_after, before) ==
    [op |-> op, category |-> category, findings_before |-> findings_before,
     findings_after |-> findings_after, before |-> before]

LockInit == ScoreIdle /\ StoreIdle /\ CurationIdle /\ HarnessIdle

CallLockCategory ==
    /\ \E category \in LockCategories, n \in LockCounts :
          /\ db' = lock_category(db, category, n[1], n[2], now)
          /\ call' = LockCall("lock_category", category, n[1], n[2], get_category_statuses(db))
    /\ UNCHANGED <<now, score_vars, curation_vars, harness_vars>>

CallUnlockCategory ==
    /\ \E category \in LockCategories :
          /\ db' = unlock_category(db, category, now)
          /\ call' = LockCall("unlock_category", category, 0, 0, get_category_statuses(db))
    /\ UNCHANGED <<now, score_vars, curation_vars, harness_vars>>

LockNext ==
    \/ CallLockCategory
    \/ CallUnlockCategory
    \/ Tick

LockSpec == LockInit /\ [][LockNext]_vars

(***************************************************************************)
(* ExtractSpec: an analysis result with a raw_output and a                 *)
(* sequential_reasoner pass, well-formed or not, is handed to              *)
(* extract_findings_for_review and to each of its callers.                 *)
(***************************************************************************)
\* a section with every field, a section with one field only, and an entry
\* of the sections list that is not an object
FullSection ==
    Section(IntPage(3), MisleadingFull, "Promissory", GuaranteedFinding)
        @@ [rule_citation |-> "SEC 206(4)-1", recommendations |-> "Remove", observations |-> "Promissory",
            summary |-> "Guarantee", accept |-> TRUE, accept_with_changes |-> FALSE,
            reject |-> FALSE, reject_reason |-> ""]

PartialSection == [sentence |-> "Returns are certain"]

SectionEntries == { FullSection, PartialSection, NonObject("string") }

\* the values of a bucket: a dict with a list of sections, a dict without
\* the key "sections", a value that is not a dict
BucketValues ==
    { [sections |-> ss] : ss \in SeqsUpTo(SectionEntries, MaxSections) }
        \cup { [note |-> "n/a"], NonObject("list") }

\* a pass with up to two of the known buckets and possibly a key that is no bucket
RawOutputs ==
    { ("misleading_artifact" :> m) @@ ("disclosure_artifact" :> d) : m, d \in BucketValues }
        \cup { ("disclosure_artifact" :> d) : d \in BucketValues }
        \cup { ("metadata" :> [sections |-> <<FullSection>>]) @@ ("typo_artifact" :> d) :
                  d \in BucketValues }

SequentialReasoners ==
    { ("performance_artifact" :> [sections |-> <<FullSection, PartialSection>>]),
      ("performance_artifact" :> [sections |-> <<>>]),
      ("performance_artifact" :> [sections |-> <<NonObject("null")>>]) }

\* what may stand for a pass that is absent or malformed
NoPass == { EmptyDict, NonObject("string") }

Analyses ==
    { ("raw_output" :> r) @@ ("sequential_reasoner" :> s) :
          r \in RawOutputs \cup NoPass, s \in SequentialReasoners \cup NoPass }
        \cup { ("raw_output" :> r) : r \in RawOutputs }
        \cup { ("sequential_reasoner" :> s) : s \in SequentialReasoners }

Extraction(caller, source_key, out) ==
    [caller |-> caller, source_key |-> source_key, out |-> out]

ExtractInit ==
    /\ analysis \in Analyses
    /\ extraction = NoExtraction
    /\ ScoreIdle /\ StoreIdle /\ CurationIdle /\ RunIdle
    /\ poll = PollIdle

\* extract_findings_for_review(doc_id, data, source_key) on a pass that is a dict
ExtractFindingsForReview ==
    /\ \E k \in 1..Len(SOURCE_KEYS) :
          /\ isinstance_dict(get(analysis, SOURCE_KEYS[k], EmptyDict))
          /\ extraction' = Extraction("extract_findings_for_review", SOURCE_KEYS[k],
                 extract_findings_for_review("d1", get(analysis, SOURCE_KEYS[k], EmptyDict),
                                             SOURCE_KEYS[k]))
    /\ UNCHANGED <<analysis, score_vars, store_vars, curation_vars, run_vars, poll_vars>>

\* _process_single_tc choosing findings_list from full_response
SelectFindingsList ==
    /\ extraction' = Extraction("_process_single_tc", "", select_findings_list(analysis, "d1", 1))
    /\ UNCHANGED <<analysis, score_vars, store_vars, curation_vars, run_vars, poll_vars>>

\* extract_golden_findings(doc, source="raw_output") of a stored document
ExtractGoldenFindings ==
    /\ extraction' = Extraction("extract_golden_findings", "raw_output",
           extract_golden_findings([_id |-> "d1", tc_number |-> "TC01", run_label |-> "golden_v1",
                                    api_response |-> analysis], "raw_output"))
    /\ UNCHANGED <<analysis, score_vars, store_vars, curation_vars, run_vars, poll_vars>>

\* parse_findings_summary(resp.text)
ParseFindingsSummary ==
    /\ extraction' = Extraction("parse_findings_summary", "", parse_findings_summary(analysis))
    /\ UNCHANGED <<analysis, score_vars, store_vars, curation_vars, run_vars, poll_vars>>

ExtractNext ==
    \/ ExtractFindingsForReview
    \/ SelectFindingsList
    \/ ExtractGoldenFindings
    \/ ParseFindingsSummary

ExtractSpec == ExtractInit /\ [][ExtractNext]_vars

(***************************************************************************)
(* CurateSpec: a reviewer on the curation page and a reviewer on the admin *)
(* page, each served by its own process, work on the same store.  A click  *)
(* reruns the page's script: the run reads, draws, and executes the        *)
(* handler of the clicked widget if the run drew that widget.              *)
(***************************************************************************)
CurationTcs == {"TC01"}

CurateInit ==
    /\ gt_df = CurationGt
    /\ gt_keys = load_ground_truth(CurationGt)
    /\ findings_list = <<>>
    /\ tc_number = "TC01"
    /\ metrics = NoMetrics
    /\ query = NoQuery
    /\ is_gt = FALSE
    /\ score_pc = "loaded"
    /\ StoreIdle
    /\ CurationIdle
    /\ HarnessIdle

\* a script run of the curation page: its readers go through st.cache_data
CurationRun(tc) ==
    script_run("curation", db.golden_outputs, {tc},
               cached_deletion_keys, cached_category_statuses)

\* a script run of the admin page: it reads the store
AdminRun(tc) ==
    script_run("admin", db.golden_outputs, {tc},
               load_deletion_keys(db), get_category_statuses(db))

\* the themes that have an expander in the Curate tab
theme_list(run) == { run.curate[i].theme : i \in 1..Len(run.curate) }

\* the rows of seq at the positions S, in ascending position
RowsAt(seq, S) ==
    LET kept == SelectSeq([i \in 1..Len(seq) |-> <<i, seq[i]>>], LAMBDA x : x[1] \in S)
    IN  [k \in 1..Len(kept) |-> kept[k][2]]

Identities(rows) == [i \in 1..Len(rows) |-> RowIdentity(rows[i])]

\* a handler that writes and reruns without st.cache_data.clear()
CurationWrite_cache_kept(d, op, ids) ==
    /\ db' = d
    /\ call' = Call(op, ids, load_deletion_keys(db))
    /\ rendered' = NotRendered
    /\ UNCHANGED <<now, cache, active_categories, score_vars, harness_vars>>

\* the write of a handler of the curation page, st.cache_data.clear(), st.rerun()
CurationWrite(d, op, ids) ==
    /\ db' = d
    /\ call' = Call(op, ids, load_deletion_keys(db))
    /\ cache' = NoCache
    /\ rendered' = NotRendered
    /\ UNCHANGED <<now, active_categories, score_vars, harness_vars>>

\* the write of a handler of the admin page; its st.cache_data.clear() clears
\* the caches of the admin process
AdminWrite(d, op, ids) ==
    /\ db' = d
    /\ call' = Call(op, ids, load_deletion_keys(db))
    /\ rendered' = NotRendered
    /\ UNCHANGED <<now, cache, active_categories, score_vars, harness_vars>>

\* the curation page is loaded or rerun without a click
Render ==
    \E tc \in CurationTcs :
        /\ rendered' = CurationRun(tc)
        /\ cache' = [deletion_keys |-> Hit(cached_deletion_keys),
                     category_statuses |-> Hit(cached_category_statuses)]
        /\ UNCHANGED <<store_vars, active_categories, score_vars, harness_vars>>

\* "Yes, delete" in the popover of a row of the Curate tab
PopoverDelete ==
    \E tc \in CurationTcs :
        \E run \in {CurationRun(tc)} :
            \E i \in 1..Len(run.curate) :
                LET rd == run.curate[i]
                IN  /\ ~rd.is_gt
                    /\ ~is_locked(run.cat_statuses, cat_name(rd.theme))
                    /\ CurationWrite(soft_delete_batch(db, <<rd>>, now),
                                     "soft_delete_batch", <<RowIdentity(rd)>>)

\* the index of theme_df: the labels its rows have in display_df (its rows there,
\* counted from 1), or, after "theme_df[theme_mask].reset_index(drop=True)",
\* the positions of the rows in theme_df
theme_index(display, theme, deletion_keys) ==
    IF deletion_keys = {}
    THEN SelectSeq([i \in 1..Len(display) |-> i], LAMBDA i : display[i].theme = theme)
    ELSE [k \in 1..Len(theme_df(display, theme, deletion_keys)) |-> k]

\* theme_marked_indices: the labels of the marked editor rows, without those
\* at which display_df holds a ground-truth row
theme_marked_indices(display, labels, marked) ==
    SelectSeq(RowsAt(labels, marked), LAMBDA idx : ~display[idx].is_gt)

\* "row = display_df.loc[idx]" for each idx
rows_at_labels(display, idxs) == [k \in 1..Len(idxs) |-> display[idxs[k]]]

\* "Confirm" of the bulk delete of a theme: the rows of the theme's data
\* editors whose Delete checkbox is marked are looked up in display_df by
\* their index label and handed to soft_delete_batch.  The page gathers the
\* labels sub-bucket by sub-bucket; here they are upserted in display order,
\* which writes the same tombstones.  The call records the marked rows too.
BulkDelete ==
    \E tc \in CurationTcs :
        \E run \in {CurationRun(tc)} :
            \E theme \in theme_list(run) :
                LET rows == theme_df(run.curate, theme, run.deletion_keys)
                    free == { i \in 1..Len(rows) : ~rows[i].is_gt }
                IN  /\ ~is_locked(run.cat_statuses, cat_name(theme))
                    /\ \E marked \in SUBSET free :
                          /\ marked # {}
                          /\ Cardinality(marked) <= MaxBatch
                          /\ \E deletions \in
                                 { rows_at_labels(run.curate,
                                       theme_marked_indices(run.curate,
                                           theme_index(run.curate, theme, run.deletion_keys),
                                           marked)) } :
                                /\ deletions # <<>>
                                /\ db' = soft_delete_batch(db, deletions, now)
                                /\ call' = [op |-> "soft_delete_batch",
                                            ids |-> Identities(deletions),
                                            before |-> load_deletion_keys(db),
                                            marked |-> Identities(RowsAt(rows, marked))]
                                /\ cache' = NoCache
                                /\ rendered' = NotRendered
                                /\ UNCHANGED <<now, active_categories, score_vars, harness_vars>>

\* "Confirm" under a finding of the Browse Details tab
DetailsDelete ==
    \E tc \in CurationTcs :
        \E run \in {CurationRun(tc)} :
            \E i \in 1..Len(run.browse) :
                LET row == run.browse[i]
                IN  /\ ~row.is_gt
                    /\ ~is_locked(run.cat_statuses, row.category)
                    /\ CurationWrite(soft_delete_batch(db, <<row>>, now),
                                     "soft_delete_batch", <<RowIdentity(row)>>)

\* before_count and after_count of a theme's lock button
before_count(run, theme) == Len(SelectSeq(run.all_rows, LAMBDA r : r.theme = theme))

after_count(run, theme) == Len(theme_df(run.curate, theme, run.deletion_keys))

\* "Lock <theme>"
Lock ==
    \E tc \in CurationTcs :
        \E run \in {CurationRun(tc)} :
            \E theme \in theme_list(run) :
                /\ ~is_locked(run.cat_statuses, cat_name(theme))
                /\ CurationWrite(lock_category(db, cat_name(theme), before_count(run, theme),
                                               after_count(run, theme), now),
                                 "lock_category", <<>>)

\* "Unlock <theme>"
Unlock ==
    \E tc \in CurationTcs :
        \E run \in {CurationRun(tc)} :
            \E theme \in theme_list(run) :
                /\ is_locked(run.cat_statuses, cat_name(theme))
                /\ CurationWrite(unlock_category(db, cat_name(theme), now),
                                 "unlock_category", <<>>)

\* the Refresh button: st.cache_data.clear(), st.rerun()
Refresh ==
    /\ cache' = NoCache
    /\ rendered' = NotRendered
    /\ UNCHANGED <<store_vars, active_categories, score_vars, harness_vars>>

\* the ttl of a cache entry runs out
CacheExpire ==
    /\ \E entry \in DOMAIN cache :
          /\ cache[entry].hit
          /\ cache' = [cache EXCEPT ![entry] = Miss]
    /\ UNCHANGED <<rendered, store_vars, active_categories, score_vars, harness_vars>>

\* the admin page is loaded or rerun without a click
AdminRender ==
    \E tc \in CurationTcs :
        /\ rendered' = AdminRun(tc)
        /\ UNCHANGED <<cache, store_vars, active_categories, score_vars, harness_vars>>

\* a confirmed delete of one finding in the admin page
AdminDelete ==
    \E tc \in CurationTcs :
        \E run \in {AdminRun(tc)} :
            \E i \in 1..Len(run.curate) :
                LET rd == run.curate[i]
                IN  /\ ~is_locked(run.cat_statuses, cat_name(rd.theme))
                    /\ AdminWrite(soft_delete_batch(db, <<rd>>, now),
                                  "soft_delete_batch", <<RowIdentity(rd)>>)

AdminLock ==
    \E tc \in CurationTcs :
        \E run \in {AdminRun(tc)} :
            \E theme \in theme_list(run) :
                /\ ~is_locked(run.cat_statuses, cat_name(theme))
                /\ AdminWrite(lock_category(db, cat_name(theme), before_count(run, theme),
                                            after_count(run, theme), now),
                              "lock_category", <<>>)

AdminUnlock ==
    \E tc \in CurationTcs :
        \E run \in {AdminRun(tc)} :
            \E theme \in theme_list(run) :
                /\ is_locked(run.cat_statuses, cat_name(theme))
                /\ AdminWrite(unlock_category(db, cat_name(theme), now),
                              "unlock_category", <<>>)

CurateNext ==
    \/ Render
    \/ PopoverDelete
    \/ BulkDelete
    \/ DetailsDelete
    \/ Lock
    \/ Unlock
    \/ Refresh
    \/ CacheExpire
    \/ AdminRender
    \/ AdminDelete
    \/ AdminLock
    \/ AdminUnlock

CurateSpec == CurateInit /\ [][CurateNext]_vars

(***************************************************************************)
(* ReviewSpec: a reviewer loads the findings of a stored analysis result,  *)
(* edits review flags in the table and saves.                              *)
(***************************************************************************)
\* the results collection: a result whose second finding came with a string
\* and a null in its review flags, and a result with one pass only
ResultDocs ==
    << [_id |-> "r1",
        raw_output |-> [misleading_artifact |-> [sections |->
            << FullSection,
               Section(IntPage(4), MisleadingFull, "Promissory", "Returns are certain")
                   @@ [accept |-> "false", reject_reason |-> JsonNull] >>]]],
       [_id |-> "r2",
        sequential_reasoner |-> [typo_artifact |-> [sections |->
            << Section(NonePage, Typographical, "", "Teh fund") >>]]] >>

ReviewDb == [PO2_testing |-> ResultDocs] @@ InitialDb

\* what the reviewer can leave in the four review columns of a row
Reviews ==
    { [accept |-> TRUE, accept_with_changes |-> FALSE, reject |-> FALSE, reject_reason |-> ""],
      [accept |-> FALSE, accept_with_changes |-> FALSE, reject |-> TRUE, reject_reason |-> "duplicate"] }

\* "save_df = df.copy(); save_df[f] = edited_df[f].values": the rows of df
\* with the review columns of the edited rows
save_df(df, edits) ==
    [i \in 1..Len(df) |-> IF i \in DOMAIN edits THEN edits[i] @@ df[i] ELSE df[i]]

ReviewInit ==
    /\ ScoreIdle
    /\ db = ReviewDb /\ now = 0 /\ call = NoCall
    /\ CurationIdle
    /\ HarnessIdle

\* a document of the collection is loaded and the findings of one of its
\* passes are extracted
LoadFindings ==
    /\ \E i \in 1..Len(db.PO2_testing) : \E k \in 1..Len(SOURCE_KEYS) :
          /\ ~no_source_data(get(db.PO2_testing[i], SOURCE_KEYS[k], EmptyDict))
          /\ extraction' = Extraction("review", SOURCE_KEYS[k],
                 extract_findings_for_review(db.PO2_testing[i]._id,
                     get(db.PO2_testing[i], SOURCE_KEYS[k], EmptyDict), SOURCE_KEYS[k]))
    /\ UNCHANGED <<analysis, score_vars, store_vars, curation_vars, run_vars, poll_vars>>

\* "Save Changes" on the table of the loaded findings
SaveChanges ==
    /\ extraction.caller = "review"
    /\ extraction.out.rows # <<>>
    /\ \E S \in SUBSET (1..Len(extraction.out.rows)) :
          /\ Cardinality(S) <= MaxBatch
          /\ \E edits \in [S -> Reviews] :
                \E out \in { save_all_changes(db, extraction.out.rows,
                                 save_df(extraction.out.rows, edits), 1, 0) } :
                   /\ db' = out.d
                   /\ call' = [op |-> "save_all_changes", ids |-> <<>>, before |-> {},
                               original_df |-> extraction.out.rows,
                               edited_df |-> save_df(extraction.out.rows, edits),
                               changed |-> out.changed]
    /\ UNCHANGED <<now, score_vars, curation_vars, harness_vars>>

ReviewNext ==
    \/ LoadFindings
    \/ SaveChanges

ReviewSpec == ReviewInit /\ [][ReviewNext]_vars

(***************************************************************************)
(* RolloutSpec: the curation page deployed with one of the allowlists the  *)
(* comments of ACTIVE_CATEGORIES foresee ("unlock more as curation         *)
(* progresses"), on the same store.                                        *)
(***************************************************************************)
\* the shipped allowlist, and the one with T3 unlocked too
AllowLists == { ACTIVE_CATEGORIES, ACTIVE_CATEGORIES \cup {Disclosures} }

RolloutInit ==
    /\ gt_df = CurationGt
    /\ gt_keys = load_ground_truth(CurationGt)
    /\ findings_list = <<>>
    /\ tc_number = "TC01"
    /\ metrics = NoMetrics
    /\ query = NoQuery
    /\ is_gt = FALSE
    /\ score_pc = "loaded"
    /\ StoreIdle
    /\ cache = NoCache
    /\ rendered = NotRendered
    /\ active_categories \in AllowLists
    /\ HarnessIdle

RolloutNext ==
    \/ Render
    \/ PopoverDelete
    \/ BulkDelete
    \/ Lock
    \/ Unlock
    \/ Refresh
    \/ Tick

RolloutSpec == RolloutInit /\ [][RolloutNext]_vars

(***************************************************************************)
(* RunSpec: one session of the test bench.  The operator clicks Run All,   *)
(* single test-case buttons and Clear Results; the analysis service        *)
(* answers each submission with a 200 and an analysis, a 200 and a body    *)
(* that is no JSON or has a malformed section, a 500, or not at all.       *)
(***************************************************************************)
AllItems == <<"TC01_FS_Growth.pdf", "TC2_PP_Income.pdf", "Notes.pdf">>

\* items: the file names of the test documents, sorted by tc_sort_key
Items == SubSeq(AllItems, 1, MaxItems)

\* the ground truth of a run: three rows for TC01, one for TC02
RunGt ==
    <<GtRow("TC01", IntPage(3), MisleadingShort, GuaranteedGt),
      GtRow("TC01", NonePage, MisleadingFull, LongGt),
      GtRow("tc01 ", NonePage, Disclosures, "No risk disclosure"),
      GtRow("TC02", IntPage(3), " misleading", GuaranteedGt)>>

\* the analysis of a document: two findings of the ground truth and one that
\* is not for TC01, one finding of a category outside the ground truth else
AnalysisOf(name) ==
    IF short_name_tc(name) = "TC01"
    THEN [raw_output |->
            [misleading_artifact |->
                [sections |-> <<Section(IntPage(3), MisleadingFull, "Promissory", GuaranteedFinding),
                                Section(StrPage(""), " MISLEADING ", "", LongFinding)>>],
             disclosure_artifact |->
                [sections |-> <<Section(IntPage(3), Disclosures, "", "Fees may apply")>>]]]
    ELSE [sequential_reasoner |->
            [typo_artifact |-> [sections |-> <<Section(NonePage, Typographical, "", "Teh fund")>>]]]

EmptyAnalysis == [raw_output |-> [disclosure_artifact |-> [sections |-> <<>>]]]

MalformedAnalysis == [raw_output |-> [disclosure_artifact |-> [sections |-> <<NonObject("string")>>]]]

\* what the service can answer to the submission of a document
Responses(name) ==
    { Response(200, "{analysis of " \o name \o "}", AnalysisOf(name)),
      Response(200, "{no finding}", EmptyAnalysis),
      Response(200, "{malformed section}", MalformedAnalysis),
      Response(200, "<html>Bad Gateway</html>", NonObject("invalid")),
      Response(500, "Internal Server Error", NonObject("invalid")),
      RequestFailed("ReadTimeout") }

\* what find_one on the results collection gives for the document: the
\* collection holds a result document for TC01 only
MongoDoc(name) == IF short_name_tc(name) = "TC01" THEN <<"d1">> ELSE NoDoc

\* run_name as the caller passes it: None (main.py) or a generated name
RunNames == { "", "swift-falcon-0301" }

RunInit ==
    /\ gt_df \in { <<>>, RunGt }
    /\ gt_keys = load_ground_truth(gt_df)
    /\ findings_list = <<>>
    /\ tc_number = "TC01"
    /\ metrics = NoMetrics
    /\ query = NoQuery
    /\ is_gt = FALSE
    /\ score_pc = "loaded"
    /\ StoreIdle
    /\ CurationIdle
    /\ ExtractIdle
    /\ results = EmptyDict
    /\ runs = EmptyDict
    /\ batch \in { [BatchIdle EXCEPT !.run_name = run_name] : run_name \in RunNames }
    /\ summary = NoSummary
    /\ poll = PollIdle

\* "Clear Results": st.session_state["results"] = {} and st.rerun(); the
\* summary drawn before is gone
ClearResults ==
    /\ batch.pc = "idle"
    /\ results' = EmptyDict
    /\ summary' = NoSummary
    /\ UNCHANGED <<runs, batch, score_vars, store_vars, curation_vars, extract_vars, poll_vars>>

\* "Run All" is clicked: pending is built; without a pending item nothing runs
RunAll ==
    /\ batch.pc = "idle"
    /\ batch' = IF pending_items(Items, results) = <<>> THEN batch
                ELSE [batch EXCEPT !.pc = "submit", !.pending = pending_items(Items, results), !.i = 1]
    /\ UNCHANGED <<results, runs, summary, score_vars, store_vars, curation_vars, extract_vars, poll_vars>>

\* one pass of the loop body up to save_run: the test case is submitted and
\* its result, or the failed entry, is stored in the session
RunAllProcess ==
    /\ batch.pc = "submit"
    /\ \E resp \in Responses(batch.pending[batch.i]) :
          /\ results' = record_result(results, batch.pending[batch.i],
                            process_single_tc(batch.pending[batch.i], resp,
                                              MongoDoc(batch.pending[batch.i]),
                                              gt_keys, gt_df, batch.run_name, now),
                            batch.run_name, now)
          /\ batch' = after_tc([batch EXCEPT !.last = resp])
    /\ summary' = NoSummary
    /\ UNCHANGED <<runs, score_vars, store_vars, curation_vars, extract_vars, poll_vars>>

\* save_run(run_name or "unknown", st.session_state["results"], ...), then the
\* next pending test case or st.rerun()
RunAllSave ==
    /\ batch.pc = "save"
    /\ runs' = save_run(runs, run_name_or_unknown(batch.run_name), results, Items, now)
    /\ batch' = after_save(batch)
    /\ UNCHANGED <<results, summary, score_vars, store_vars, curation_vars, extract_vars, poll_vars>>

\* the button of one test case is clicked: the test case is submitted, run
\* before or not, and its result or the failed entry is stored
RunSingle ==
    /\ batch.pc = "idle"
    /\ \E k \in 1..Len(Items) :
       \E resp \in Responses(Items[k]) :
          /\ results' = record_result(results, Items[k],
                            process_single_tc(Items[k], resp, MongoDoc(Items[k]),
                                              gt_keys, gt_df, batch.run_name, now),
                            batch.run_name, now)
          /\ batch' = [batch EXCEPT !.pc = "save_single", !.pending = <<Items[k]>>, !.i = 1,
                                    !.last = resp]
    /\ summary' = NoSummary
    /\ UNCHANGED <<runs, score_vars, store_vars, curation_vars, extract_vars, poll_vars>>

\* save_run after the single test case, then st.rerun()
RunSingleSave ==
    /\ batch.pc = "save_single"
    /\ runs' = save_run(runs, run_name_or_unknown(batch.run_name), results, Items, now)
    /\ batch' = [batch EXCEPT !.pc = "idle", !.pending = <<>>, !.i = 0]
    /\ UNCHANGED <<results, summary, score_vars, store_vars, curation_vars, extract_vars, poll_vars>>

\* a script run draws the summary level of the results
RenderSummaryLevel ==
    /\ batch.pc = "idle"
    /\ results # EmptyDict
    /\ summary' = render_summary_level(results, Items, gt_keys, gt_df)
    /\ UNCHANGED <<results, runs, batch, score_vars, store_vars, curation_vars, extract_vars, poll_vars>>

RunNext ==
    \/ ClearResults
    \/ RunAll
    \/ RunAllProcess
    \/ RunAllSave
    \/ RunSingle
    \/ RunSingleSave
    \/ RenderSummaryLevel

RunSpec == RunInit /\ [][RunNext]_vars

(***************************************************************************)
(* HarnessSpec: the page of test_harness.py.  A click on the button of a   *)
(* test case posts the document to /analyze and, given a process id, polls *)
(* /output/{process_id}; each pass of the poll loop is a step.             *)
(***************************************************************************)
\* the test documents of the page
HarnessItems == SubSeq(AllItems, 1, 1)

\* what POST /analyze gives: an error status (raise_for_status raises), a
\* body without process_id, a body with one
AnalyzeAnswers ==
    { RequestFailed("HTTPError"),
      Response(200, "{}", EmptyDict),
      Response(200, "{process_id}", [process_id |-> "p1"]) }

\* what GET /output/{process_id} gives: an error status, a body with a
\* status that says the analysis still runs, with another status, or
\* without status
OutputAnswers(name) ==
    { RequestFailed("HTTPError"),
      Response(200, "{PENDING}", [status |-> "PENDING"]),
      Response(200, "{STARTED}", [status |-> "STARTED"]),
      Response(200, "{PROCESSING}", [status |-> "PROCESSING"]),
      Response(200, "{COMPLETED, analysis of " \o name \o "}", [status |-> "COMPLETED"] @@ AnalysisOf(name)),
      Response(200, "{FAILED}", [status |-> "FAILED"]),
      Response(200, "{no status}", EmptyAnalysis) }

\* the poll response with the status of the analysis that the loop saw last
LastPollResponse(status) == Response(200, "{" \o status \o "}", [status |-> status])

HarnessInit ==
    /\ ScoreIdle /\ StoreIdle /\ CurationIdle /\ ExtractIdle /\ RunIdle
    /\ poll = PollIdle

\* "Clear Results"
HarnessClearResults ==
    /\ poll.pc = "idle"
    /\ results' = EmptyDict
    /\ UNCHANGED <<poll, runs, batch, summary, score_vars, store_vars, curation_vars, extract_vars>>

\* the button of a test case is clicked: _post_analyze posts the document;
\* it raises, returns the response as it is, or goes on to poll
PostAnalyze ==
    /\ poll.pc = "idle"
    /\ \E k \in 1..Len(HarnessItems) : \E resp \in AnalyzeAnswers :
          IF resp.raised = "none" /\ "process_id" \in DOMAIN resp.body
          THEN /\ poll' = [pc |-> "polling", name |-> HarnessItems[k], elapsed |-> 0, polls |-> 0,
                           status |-> "", ended |-> "none"]
               /\ UNCHANGED results
          ELSE /\ poll' = [pc |-> "idle", name |-> HarnessItems[k], elapsed |-> 0, polls |-> 0,
                           status |-> "",
                           ended |-> IF resp.raised = "none" THEN "as-is" ELSE "raised"]
               /\ results' = harness_record(results, HarnessItems[k], resp, now)
    /\ UNCHANGED <<runs, batch, summary, score_vars, store_vars, curation_vars, extract_vars>>

\* one pass of the poll loop: sleep, ask for the status; the pass raises,
\* returns the poll response, or leaves the analysis running
PollOutput ==
    /\ poll.pc = "polling"
    /\ while_elapsed(poll.elapsed)
    /\ \/ \E resp \in {r \in OutputAnswers(poll.name) : loop_goes_on(r)} :
             /\ poll' = [poll EXCEPT !.elapsed = @ + POLL_INTERVAL, !.polls = @ + 1,
                                     !.status = get(resp.body, "status", "")]
             /\ UNCHANGED results
       \/ \E resp \in {r \in OutputAnswers(poll.name) : ~loop_goes_on(r)} :
             /\ poll' = [poll EXCEPT !.pc = "idle", !.elapsed = @ + POLL_INTERVAL, !.polls = @ + 1,
                                     !.status = IF resp.raised = "none"
                                                THEN get(resp.body, "status", "") ELSE @,
                                     !.ended = IF resp.raised = "none" THEN "terminal" ELSE "raised"]
             /\ results' = harness_record(results, poll.name, resp, now)
    /\ UNCHANGED <<runs, batch, summary, score_vars, store_vars, curation_vars, extract_vars>>

\* the loop ends by its condition: _post_analyze returns the last poll
\* response
PollTimedOut ==
    /\ poll.pc = "polling"
    /\ ~while_elapsed(poll.elapsed)
    /\ poll' = [poll EXCEPT !.pc = "idle", !.ended = "timeout"]
    /\ results' = harness_record(results, poll.name, LastPollResponse(poll.status), now)
    /\ UNCHANGED <<runs, batch, summary, score_vars, store_vars, curation_vars, extract_vars>>

HarnessNext ==
    \/ HarnessClearResults
    \/ PostAnalyze
    \/ PollOutput
    \/ PollTimedOut

HarnessSpec == HarnessInit /\ [][HarnessNext]_vars

\* time.sleep and requests.get with its timeout return: a pass of the loop
\* that can be made is made
HarnessFairSpec == HarnessSpec /\ WF_vars(PollOutput) /\ WF_vars(PollTimedOut)

(***************************************************************************)
(* Claims about the scoring engine.                                        *)
(***************************************************************************)
Scored == score_pc = "scored"

\* the ground-truth rows of the test case, by position in gt_df
TcRowIndexes == { i \in 1..Len(gt_df) : Upper(Strip(gt_df[i].tc_id)) = Upper(tc_number) }

\* the lower-cased (stripped) category labels of those rows
TcCategoryLabels == { Lower(Strip(gt_df[i].category)) : i \in TcRowIndexes }

StatusIndexes(status) ==
    { i \in 1..Len(metrics.detailed_findings) : metrics.detailed_findings[i].gt_status = status }

OutsideGtCategories(f) == Lower(Strip(f.category)) \notin TcCategoryLabels

\* C1: every finding whose stripped, lower-cased category is not a category
\* label of the test case's ground-truth rows is classified Suppressed, and
\* tp, fp and fn count only the other findings: tp and fp are the numbers of
\* findings classified TP and FP, fn is expected minus that tp, and scoring
\* the list without its Suppressed findings gives the same tp, fp and fn.
C1_SuppressedOutsideGtCategories ==
    Scored =>
        LET graded == SelectSeq(findings_list, LAMBDA f : ~OutsideGtCategories(f))
            alone == calculate_gt_metrics(graded, gt_keys, gt_df, tc_number)
        IN  /\ Len(metrics.detailed_findings) = Len(findings_list)
            /\ \A i \in 1..Len(findings_list) :
                  OutsideGtCategories(findings_list[i])
                      => metrics.detailed_findings[i].gt_status = "Suppressed"
            /\ metrics.tp = Cardinality(StatusIndexes("TP"))
            /\ metrics.fp = Cardinality(StatusIndexes("FP"))
            /\ metrics.suppressed = Cardinality(StatusIndexes("Suppressed"))
            /\ metrics.fn = metrics.expected - Cardinality(StatusIndexes("TP"))
            /\ alone.tp = metrics.tp /\ alone.fp = metrics.fp /\ alone.fn = metrics.fn

\* a scored list with a Suppressed finding next to a graded one
C1_Witness ==
    /\ Scored
    /\ metrics.suppressed >= 1
    /\ metrics.tp >= 1
    /\ \E i \in 1..Len(findings_list) : OutsideGtCategories(findings_list[i])

\* C2: relevant_found = tp + fp, found = tp + fp + suppressed = the number of
\* findings given, and fn = expected - tp, where expected is the number of
\* ground-truth rows of the test case.
C2_CountIdentities ==
    Scored =>
        /\ metrics.relevant_found = metrics.tp + metrics.fp
        /\ metrics.found = metrics.tp + metrics.fp + metrics.suppressed
        /\ metrics.found = Len(findings_list)
        /\ metrics.expected = Cardinality(TcRowIndexes)
        /\ metrics.fn = metrics.expected - metrics.tp

\* two findings match the only ground-truth row: tp exceeds expected
C2_Witness ==
    /\ Scored
    /\ metrics.expected = 1
    /\ metrics.tp = 2
    /\ metrics.fn = -1

\* the page of a query as the match predicate compares it: the integer, the
\* value of a numeric string, 0 for a missing, empty or non-numeric page
QueryPage ==
    CASE query.page.kind = "int" -> query.page.n
      [] query.page.kind = "str" /\ IsDigits(Strip(query.page.s)) -> DigitsValue(Strip(query.page.s))
      [] OTHER -> 0

QuerySentence == Lower(Strip(query.sentence))

\* needle occurs in hay between some two positions
IsSubstring(needle, hay) ==
    \E i \in 1..(Len(hay) + 1), j \in 0..Len(hay) : SubSeq(hay, i, j) = needle

QueryExactKey == <<Strip(query.tc), QueryPage, Slice(QuerySentence, PrefixLen)>>

QueryFallbackKeys ==
    { k \in query.keys : /\ k[1] = Strip(query.tc)
                         /\ k[2] = QueryPage
                         /\ k[3] # ""
                         /\ IsSubstring(k[3], QuerySentence) }

\* C3: is_ground_truth(tc, page, sentence, keys) is true exactly when keys
\* holds (tc, page, first 50 characters of the stripped lower-cased sentence)
\* or some key of the same test case and page has a non-empty prefix that is
\* a substring of the stripped lower-cased sentence; it is false whenever the
\* key set is empty.
C3_MatchPredicate ==
    query # NoQuery =>
        /\ is_gt = (QueryExactKey \in query.keys \/ QueryFallbackKeys # {})
        /\ query.keys = {} => ~is_gt

\* a match found by the fallback scan only
C3_Witness ==
    /\ query # NoQuery
    /\ is_gt
    /\ QueryExactKey \notin query.keys
    /\ QueryFallbackKeys # {}

\* the scenario of C4: the only ground-truth row of TC01 and the finding
C4_GtRow == GtRow("TC01", IntPage(3), MisleadingShort, GuaranteedGt)
C4_Finding == Finding(IntPage(3), MisleadingFull, GuaranteedFinding)

\* C4: with the single ground-truth row (TC01, page 3, "Misleading",
\* "Guaranteed 20% returns"), a finding of TC01 on page 3 with category
\* "Misleading or Unsubstantiated Claims" whose first 50 characters match the
\* ground-truth prefix is classified TP.
C4_FullLabelFindingIsTP ==
    (Scored /\ tc_number = "TC01" /\ gt_df = <<C4_GtRow>>) =>
        \A i \in 1..Len(findings_list) :
            findings_list[i] = C4_Finding => metrics.detailed_findings[i].gt_status = "TP"

(***************************************************************************)
(* Claims about the soft-delete overlay.                                   *)
(***************************************************************************)
Tombstones == db.golden_deletions

TombstonesOf(d, id) == { i \in 1..Len(d.golden_deletions) : TombstoneIdentity(d.golden_deletions[i]) = id }

AtMostOneTombstonePerIdentity ==
    \A i, j \in 1..Len(Tombstones) :
        TombstoneIdentity(Tombstones[i]) = TombstoneIdentity(Tombstones[j]) => i = j

\* a step that is a call of soft_delete_finding on an identity already tombstoned
SecondSoftDelete(id) ==
    /\ call'.op = "soft_delete_finding"
    /\ now' = now
    /\ call'.ids = <<id>>
    /\ id \in load_deletion_keys(db)

SecondSoftDeleteOnlyRefreshes ==
    \A id \in DeleteIds :
        SecondSoftDelete(id) =>
            /\ Len(db'.golden_deletions) = Len(db.golden_deletions)
            /\ Cardinality(TombstonesOf(db', id)) = 1
            /\ \A i \in 1..Len(db.golden_deletions) :
                  IF i \in TombstonesOf(db, id)
                  THEN TombstoneIdentity(db'.golden_deletions[i]) = id
                  ELSE db'.golden_deletions[i] = db.golden_deletions[i]
            /\ db'.golden_outputs = db.golden_outputs
            /\ db'.golden_category_status = db.golden_category_status

\* C5: after any sequence of soft_delete_finding, soft_delete_batch and
\* undo_soft_delete calls the deletion store holds at most one tombstone per
\* identity, and a soft delete of an identity that already has a tombstone
\* keeps that one tombstone in place, changing nothing but its metadata.
C5_SoftDeleteIdempotent ==
    /\ []AtMostOneTombstonePerIdentity
    /\ [][SecondSoftDeleteOnlyRefreshes]_vars

\* a second soft delete has refreshed the timestamp of the older of two tombstones
C5_Witness ==
    /\ call.op = "soft_delete_finding"
    /\ call.ids[1] \in call.before
    /\ Len(Tombstones) = 2
    /\ TombstoneIdentity(Tombstones[1]) = call.ids[1]
    /\ Tombstones[1].deleted_at > Tombstones[2].deleted_at

\* the tombstones of the identities other than id, in store order
OtherTombstones(d, id) == SelectSeq(d.golden_deletions, LAMBDA x : TombstoneIdentity(x) # id)

\* the identities of the rows a page draws for all test cases from a fresh read of the store
CuratedIdentities(d) ==
    LET view == curated_view(d.golden_outputs, TcNumbers, load_deletion_keys(d))
    IN  { RowIdentity(view[i]) : i \in 1..Len(view) }

UndoStep(id) ==
    /\ call'.op = "undo_soft_delete"
    /\ now' = now
    /\ call'.ids = <<id>>

UndoRestores ==
    \A id \in DeleteIds :
        UndoStep(id) =>
            /\ id \notin load_deletion_keys(db')
            /\ id \in CuratedIdentities(db')
            /\ id \notin load_deletion_keys(db) => db' = db
            /\ OtherTombstones(db', id) = OtherTombstones(db, id)

\* C6: undo_soft_delete(identity) removes the identity's tombstone, so that
\* load_deletion_keys no longer holds the identity and the finding is drawn
\* again; on an identity without a tombstone it changes nothing; either way
\* the tombstones of the other identities stay as they were.
C6_UndoRemovesOnlyItsTombstone == [][UndoRestores]_vars

\* an undo has removed one of two tombstones
C6_Witness ==
    /\ call.op = "undo_soft_delete"
    /\ call.ids[1] \in call.before
    /\ Cardinality(call.before) = 2
    /\ Len(Tombstones) = 1
    /\ call.ids[1] \in CuratedIdentities(db)

\* C8: the soft-delete and lock operations never modify a finding-bearing
\* source document: whatever was called, golden_outputs is what it was.
C8_SourceDocumentsUntouched == db.golden_outputs = GoldenOutputs

\* a batch has re-deleted a tombstoned finding after the category was locked and unlocked
C8_Witness ==
    /\ call.op = "soft_delete_batch"
    /\ Len(call.ids) = 2
    /\ call.ids[1] \in call.before
    /\ Len(Tombstones) = 2
    /\ \E i \in 1..Len(db.golden_category_status) :
          /\ db.golden_category_status[i].status = "unlocked"
          /\ db.golden_category_status[i].unlocked_at # <<>>
    /\ db.golden_outputs = GoldenOutputs

(***************************************************************************)
(* Claims about the curation pages.                                        *)
(***************************************************************************)
\* the findings a script run drew in the Curate tab, the Browse Details tab
\* and the golden CSV
DrawnRows(run) ==
    { run.curate[i] : i \in 1..Len(run.curate) }
        \cup { run.browse[i] : i \in 1..Len(run.browse) }
        \cup { run.golden_csv.rows[i] : i \in 1..Len(run.golden_csv.rows) }

\* C7 as stated: a page that has just been drawn shows and exports no finding
\* that has a tombstone in the store.
C7_TombstonedNeverDrawn ==
    rendered.drawn =>
        \A r \in DrawnRows(rendered) : RowIdentity(r) \notin load_deletion_keys(db)

\* C7 amended: a page that has just been drawn shows and exports no finding
\* whose identity is among the deletion keys its run read; the admin page
\* reads them from the store, the curation page from a cache that can lag
\* behind the store but holds no key the store does not hold.
C7_MaskedByKeysRead ==
    rendered.drawn =>
        /\ \A r \in DrawnRows(rendered) : RowIdentity(r) \notin rendered.deletion_keys
        /\ rendered.app = "admin" => rendered.deletion_keys = load_deletion_keys(db)
        /\ rendered.deletion_keys \subseteq load_deletion_keys(db)

\* the curation page drew both tabs and offered the export while tombstones existed
C7_Witness ==
    /\ rendered.drawn
    /\ rendered.app = "curation"
    /\ rendered.deletion_keys # {}
    /\ rendered.curate # <<>>
    /\ rendered.browse # <<>>
    /\ rendered.golden_csv.offered

\* the positions of the tombstones a step has written
WrittenTombstones ==
    { i \in 1..Len(db'.golden_deletions) :
        i > Len(db.golden_deletions) \/ db'.golden_deletions[i] # db.golden_deletions[i] }

\* C9: no tombstone is written for a finding whose category is locked in the
\* store at the moment of the write.
C9_NoTombstoneWhileLocked ==
    [][\A i \in WrittenTombstones :
          ~is_locked(get_category_statuses(db), db'.golden_deletions[i].category)]_vars

\* C10 as stated: the export the curation page has just drawn holds only
\* findings whose category is locked in the store, and none is offered when
\* the store holds no locked category.
C10_ExportOnlyLockedInStore ==
    rendered.drawn =>
        /\ \A i \in 1..Len(rendered.golden_csv.rows) :
              is_locked(get_category_statuses(db), rendered.golden_csv.rows[i].category)
        /\ locked_cats(get_category_statuses(db)) = {} => ~rendered.golden_csv.offered

\* C10 amended: the export holds only findings whose category is locked in
\* the category statuses the run read (cached by the curation page), and none
\* is offered when those statuses hold no locked category.
C10_ExportOnlyLockedAsRead ==
    rendered.drawn =>
        /\ \A i \in 1..Len(rendered.golden_csv.rows) :
              is_locked(rendered.cat_statuses, rendered.golden_csv.rows[i].category)
        /\ locked_cats(rendered.cat_statuses) = {} => ~rendered.golden_csv.offered
        /\ rendered.golden_csv.offered => rendered.golden_csv.rows # <<>>

\* an export is offered for a category that was locked, unlocked and locked
\* again, while the run also read findings of a category that is not locked
C10_Witness ==
    /\ rendered.drawn
    /\ rendered.golden_csv.offered
    /\ \E c \in DOMAIN rendered.cat_statuses :
          /\ is_locked(rendered.cat_statuses, c)
          /\ rendered.cat_statuses[c].unlocked_at # <<>>
    /\ \E i \in 1..Len(rendered.df) : ~is_locked(rendered.cat_statuses, rendered.df[i].category)

(***************************************************************************)
(* The category status collection (LockSpec).                              *)
(***************************************************************************)
CategoryStatuses == get_category_statuses(db)

\* a step that is a call of lock_category on category c
LockStep(c) ==
    /\ call'.op = "lock_category"
    /\ call'.category = c
    /\ now' = now
    /\ call'.before = get_category_statuses(db)

\* a step that is a call of unlock_category on category c
UnlockStep(c) ==
    /\ call'.op = "unlock_category"
    /\ call'.category = c
    /\ now' = now
    /\ call'.before = get_category_statuses(db)

LockSnapshotsCounts ==
    \A c \in LockCategories :
        LockStep(c) =>
            LET after == get_category_statuses(db')
            IN  /\ c \in DOMAIN after
                /\ after[c].status = "locked"
                /\ after[c].findings_before = call'.findings_before
                /\ after[c].findings_after = call'.findings_after
                /\ after[c].deletions = call'.findings_before - call'.findings_after

UnlockKeepsCounts ==
    \A c \in LockCategories :
        UnlockStep(c) =>
            IF c \in DOMAIN call'.before
            THEN get_category_statuses(db')[c] =
                    [call'.before[c] EXCEPT !.status = "unlocked", !.unlocked_at = <<now>>]
            ELSE db' = db

\* C11: lock_category(category, N, M) stores status locked, findings_before N,
\* findings_after M and deletions N - M; unlock_category changes only the
\* status and the unlock timestamp of the record, so the counts stay as the
\* last lock recorded them.
C11_LockCountsSurviveUnlock ==
    /\ [][LockSnapshotsCounts]_vars
    /\ [][UnlockKeepsCounts]_vars

\* a category locked with before 3, after 1 has been unlocked and still shows 3, 1, 2
C11_Witness ==
    /\ call.op = "unlock_category"
    /\ call.category \in DOMAIN call.before
    /\ call.before[call.category].status = "locked"
    /\ CategoryStatuses[call.category].status = "unlocked"
    /\ CategoryStatuses[call.category].findings_before = 3
    /\ CategoryStatuses[call.category].findings_after = 1
    /\ CategoryStatuses[call.category].deletions = 2

AtMostOneStatusPerCategory ==
    \A i, j \in 1..Len(db.golden_category_status) :
        db.golden_category_status[i].category = db.golden_category_status[j].category => i = j

\* the record of the category of the last call is what that call wrote
LastCallRecorded ==
    /\ call.op = "lock_category" =>
          /\ call.category \in DOMAIN CategoryStatuses
          /\ CategoryStatuses[call.category].status = "locked"
          /\ CategoryStatuses[call.category].findings_before = call.findings_before
          /\ CategoryStatuses[call.category].findings_after = call.findings_after
    /\ call.op = "unlock_category" =>
          IF call.category \in DOMAIN call.before
          THEN /\ call.category \in DOMAIN CategoryStatuses
               /\ CategoryStatuses[call.category].status = "unlocked"
          ELSE call.category \notin DOMAIN CategoryStatuses

\* a call on one category leaves the records of the other categories as they were
OtherCategoriesKept ==
    \A c \in LockCategories :
        (LockStep(c) \/ UnlockStep(c)) =>
            \A o \in DOMAIN call'.before \ {c} :
                /\ o \in DOMAIN get_category_statuses(db')
                /\ get_category_statuses(db')[o] = call'.before[o]

\* C12: after any sequence of lock_category and unlock_category calls the
\* status collection holds at most one document per category, the record of a
\* category is the one its last write left, and a write to one category does
\* not touch the record of another.
C12_OneStatusLastWriteWins ==
    /\ []AtMostOneStatusPerCategory
    /\ []LastCallRecorded
    /\ [][OtherCategoriesKept]_vars

\* both categories have a record; the last call locked again, with new counts,
\* a category that had been locked and unlocked before
C12_Witness ==
    /\ Len(db.golden_category_status) = 2
    /\ call.op = "lock_category"
    /\ call.category \in DOMAIN call.before
    /\ call.before[call.category].status = "unlocked"
    /\ call.before[call.category].findings_before # call.findings_before
    /\ CategoryStatuses[call.category].findings_before = call.findings_before

\* a step that is a call of lock_category on a category whose record says locked
RelockStep(c) ==
    /\ LockStep(c)
    /\ c \in DOMAIN call'.before
    /\ call'.before[c].status = "locked"

Counts(s) == <<s.findings_before, s.findings_after, s.deletions>>

\* C13 as stated: lock_category on a category that is already locked leaves
\* it locked and leaves the recorded findings_before, findings_after and
\* deletions unchanged.
C13_RelockKeepsCounts ==
    [][\A c \in LockCategories :
          RelockStep(c) =>
              /\ get_category_statuses(db')[c].status = "locked"
              /\ Counts(get_category_statuses(db')[c]) = Counts(call'.before[c])]_vars

\* C13 as amended: lock_category on a category that is already locked keeps
\* the single record of the category, locked, and overwrites its counts with
\* those of the call and its locked_at with the time of the call; nothing
\* else in the store changes.
C13_RelockOverwritesCounts ==
    [][\A c \in LockCategories :
          RelockStep(c) =>
              /\ Len(db'.golden_category_status) = Len(db.golden_category_status)
              /\ get_category_statuses(db')[c] =
                    [call'.before[c] EXCEPT
                        !.locked_at = now,
                        !.findings_before = call'.findings_before,
                        !.findings_after = call'.findings_after,
                        !.deletions = call'.findings_before - call'.findings_after]
              /\ \A o \in DOMAIN call'.before \ {c} :
                    get_category_statuses(db')[o] = call'.before[o]
              /\ db'.golden_deletions = db.golden_deletions
              /\ db'.golden_outputs = db.golden_outputs]_vars

\* a locked category has been locked again with other counts
C13_Witness ==
    /\ call.op = "lock_category"
    /\ call.category \in DOMAIN call.before
    /\ call.before[call.category].status = "locked"
    /\ call.before[call.category].findings_before = 2
    /\ CategoryStatuses[call.category].status = "locked"
    /\ CategoryStatuses[call.category].findings_before = 3

(***************************************************************************)
(* Finding extraction (ExtractSpec).                                       *)
(***************************************************************************)
\* the sections list of an artifact bucket of a pass; none when the bucket is
\* missing or is not an object
BucketSections(data, art_key) ==
    IF isinstance_dict(get(data, art_key, EmptyDict))
    THEN get(get(data, art_key, EmptyDict), "sections", <<>>)
    ELSE <<>>

RECURSIVE TotalSections(_, _)
\* the number of sections in the artifact buckets of a pass, from bucket k on
TotalSections(data, k) ==
    IF k > Len(ARTIFACT_TYPES) THEN 0
    ELSE Len(BucketSections(data, ARTIFACT_TYPES[k])) + TotalSections(data, k + 1)

BucketIndex(art_key) == CHOOSE k \in 1..Len(ARTIFACT_TYPES) : ARTIFACT_TYPES[k] = art_key

\* the pass a source key names, {} when it is missing or is not an object
PassOf(data, source_key) ==
    IF isinstance_dict(get(data, source_key, EmptyDict))
    THEN get(data, source_key, EmptyDict) ELSE EmptyDict

\* row r is the record of the section its identity points at in pass data
RowOfItsSection(r, data) ==
    /\ r._art_key \in { ARTIFACT_TYPES[k] : k \in 1..Len(ARTIFACT_TYPES) }
    /\ r._section_idx \in 0..(Len(BucketSections(data, r._art_key)) - 1)
    /\ isinstance_dict(BucketSections(data, r._art_key)[r._section_idx + 1])
    /\ r.sentence = get(BucketSections(data, r._art_key)[r._section_idx + 1], "sentence", "")

\* rows are in bucket order, then section order
InExtractionOrder(rows) ==
    \A i, j \in 1..Len(rows) :
        i < j =>
            \/ BucketIndex(rows[i]._art_key) < BucketIndex(rows[j]._art_key)
            \/ /\ rows[i]._art_key = rows[j]._art_key
               /\ rows[i]._section_idx < rows[j]._section_idx

Returns(caller) == extraction.caller = caller /\ extraction.out.raised = "none"

\* C14: when extract_findings_for_review returns, it returns one record per
\* section of the artifact buckets of the pass, in bucket order then section
\* order, each with the index of its section in its bucket and the doc_id and
\* source it was given; the identities of the records are pairwise distinct.
C14_OneRecordPerSection ==
    Returns("extract_findings_for_review") =>
        LET rows == extraction.out.rows
            data == PassOf(analysis, extraction.source_key)
        IN  /\ Len(rows) = TotalSections(data, 1)
            /\ \A i \in 1..Len(rows) :
                  /\ RowOfItsSection(rows[i], data)
                  /\ rows[i]._doc_id = "d1"
                  /\ rows[i]._source = extraction.source_key
            /\ InExtractionOrder(rows)
            /\ \A i, j \in 1..Len(rows) : RowIdentity(rows[i]) = RowIdentity(rows[j]) => i = j

\* two sections of one bucket and one of a later bucket gave indexes 0, 1, 0
C14_Witness ==
    /\ Returns("extract_findings_for_review")
    /\ Len(extraction.out.rows) = 3
    /\ extraction.out.rows[2]._section_idx = 1
    /\ extraction.out.rows[3]._section_idx = 0
    /\ extraction.out.rows[2]._art_key # extraction.out.rows[3]._art_key

\* the value a missing field of a section is said to get
SaidDefault(field) ==
    IF field \in {"accept", "accept_with_changes", "reject"} THEN FALSE ELSE ""

\* the sections of the artifact buckets of a pass that are objects
ObjectSections(data) ==
    { <<k, i>> \in (1..Len(ARTIFACT_TYPES)) \X (1..MaxSections + 1) :
          /\ i <= Len(BucketSections(data, ARTIFACT_TYPES[k]))
          /\ isinstance_dict(BucketSections(data, ARTIFACT_TYPES[k])[i]) }

\* C15: extract_findings_for_review never raises: a bucket that is not an
\* object and a section that is not an object are skipped, and a missing field
\* of a section is defaulted to the empty string (False for the review flags).
C15_NeverRaises ==
    extraction.caller = "extract_findings_for_review" =>
        /\ extraction.out.raised = "none"
        /\ Len(extraction.out.rows)
              = Cardinality(ObjectSections(PassOf(analysis, extraction.source_key)))
        /\ \A i \in 1..Len(extraction.out.rows) :
              LET r == extraction.out.rows[i]
                  s == BucketSections(PassOf(analysis, extraction.source_key),
                                      r._art_key)[r._section_idx + 1]
              IN  /\ r.sentence = get(s, "sentence", SaidDefault("sentence"))
                  /\ r.category = get(s, "category", SaidDefault("category"))
                  /\ r.rule_citation = get(s, "rule_citation", SaidDefault("rule_citation"))
                  /\ r.accept = get(s, "accept", SaidDefault("accept"))
                  /\ r.reject = get(s, "reject", SaidDefault("reject"))
                  /\ r.reject_reason = get(s, "reject_reason", SaidDefault("reject_reason"))

\* the pass is there, is an object and is not empty
Usable(source_key) == ~no_source_data(get(analysis, source_key, EmptyDict))

SectionsIn(source_key) == TotalSections(PassOf(analysis, source_key), 1)

\* rows are the records of all the sections of the pass source_key, and say so
AllFrom(rows, source_key) ==
    /\ Len(rows) = SectionsIn(source_key)
    /\ \A i \in 1..Len(rows) :
          /\ rows[i]._source = source_key
          /\ RowOfItsSection(rows[i], PassOf(analysis, source_key))

\* the pass is a non-empty object whose artifact buckets are objects with a
\* list of sections
WellFormed(source_key) ==
    /\ Usable(source_key)
    /\ \A k \in 1..Len(ARTIFACT_TYPES) :
          ARTIFACT_TYPES[k] \in DOMAIN PassOf(analysis, source_key) =>
              /\ isinstance_dict(PassOf(analysis, source_key)[ARTIFACT_TYPES[k]])
              /\ "sections" \in DOMAIN PassOf(analysis, source_key)[ARTIFACT_TYPES[k]]

\* rows are the findings of one pass
OnePass(rows) ==
    \/ rows = <<>>
    \/ AllFrom(rows, "raw_output")
    \/ AllFrom(rows, "sequential_reasoner")

\* C16 as stated: the findings a caller works on come from one pass only,
\* raw_output whenever it is present and well-formed, sequential_reasoner
\* only when raw_output is absent or malformed, and each record names the
\* pass it was read from.
C16_RawOutputWheneverPresent ==
    /\ \A caller \in {"_process_single_tc", "extract_golden_findings"} :
          Returns(caller) =>
              /\ OnePass(extraction.out.rows)
              /\ WellFormed("raw_output") => AllFrom(extraction.out.rows, "raw_output")
    /\ Returns("parse_findings_summary") =>
          /\ extraction.out.total \in {SectionsIn("raw_output"), SectionsIn("sequential_reasoner")}
          /\ WellFormed("raw_output") => extraction.out.total = SectionsIn("raw_output")

\* C16 as amended: the findings a caller works on come from one pass only and
\* each record names the pass it was read from; _process_single_tc and
\* parse_findings_summary take raw_output when it yields at least one
\* finding and otherwise sequential_reasoner; extract_golden_findings takes
\* raw_output when it is a non-empty object and otherwise sequential_reasoner.
C16_OnePassFirstWithFindings ==
    /\ Returns("_process_single_tc") =>
          IF Usable("raw_output") /\ SectionsIn("raw_output") > 0
          THEN AllFrom(extraction.out.rows, "raw_output")
          ELSE IF Usable("sequential_reasoner")
               THEN AllFrom(extraction.out.rows, "sequential_reasoner")
          ELSE extraction.out.rows = <<>>
    /\ Returns("extract_golden_findings") =>
          IF Usable("raw_output") THEN AllFrom(extraction.out.rows, "raw_output")
          ELSE IF Usable("sequential_reasoner")
               THEN AllFrom(extraction.out.rows, "sequential_reasoner")
          ELSE extraction.out.rows = <<>>
    /\ Returns("parse_findings_summary") =>
          extraction.out.total =
              IF SectionsIn("raw_output") > 0 THEN SectionsIn("raw_output")
              ELSE SectionsIn("sequential_reasoner")

\* raw_output is a non-empty object without any section, and
\* _process_single_tc took the two findings of sequential_reasoner
C16_Witness ==
    /\ Returns("_process_single_tc")
    /\ Usable("raw_output")
    /\ SectionsIn("raw_output") = 0
    /\ Len(extraction.out.rows) = 2
    /\ extraction.out.rows[1]._source = "sequential_reasoner"

(***************************************************************************)
(* Zero denominators in calculate_gt_metrics (ScoreSpec).                  *)
(***************************************************************************)
\* a ratio that was computed by a division that is defined
Defined(r) == r[2] > 0

IsZero(r) == r = Ratio(0, 1)

ValueZero(r) == Defined(r) /\ r[1] = 0

\* C18: calculate_gt_metrics divides by no zero: precision is 0.0 when
\* tp + fp = 0, recall is 0.0 when expected = 0 and f1 is 0.0 when
\* precision + recall = 0; an empty findings list gives tp, fp, precision,
\* recall and f1 of 0; a test case without ground-truth rows gives expected 0
\* and every finding Suppressed.
C18_ZeroDenominators ==
    Scored =>
        /\ Defined(metrics.precision) /\ Defined(metrics.recall) /\ Defined(metrics.f1)
        /\ metrics.tp + metrics.fp = 0 => IsZero(metrics.precision)
        /\ metrics.expected = 0 => IsZero(metrics.recall)
        /\ (ValueZero(metrics.precision) /\ ValueZero(metrics.recall)) => IsZero(metrics.f1)
        /\ findings_list = <<>> =>
              /\ metrics.tp = 0 /\ metrics.fp = 0 /\ metrics.found = 0
              /\ ValueZero(metrics.precision)
              /\ ValueZero(metrics.recall)
              /\ ValueZero(metrics.f1)
        /\ TcRowIndexes = {} =>
              /\ metrics.expected = 0
              /\ metrics.suppressed = Len(findings_list)
              /\ \A i \in 1..Len(metrics.detailed_findings) :
                    metrics.detailed_findings[i].gt_status = "Suppressed"

\* findings were scored against a ground truth that has rows, none of them
\* for the test case: both denominators are zero
C18_Witness ==
    /\ Scored
    /\ gt_df # <<>>
    /\ TcRowIndexes = {}
    /\ Len(findings_list) >= 2
    /\ metrics.tp + metrics.fp = 0
    /\ metrics.expected = 0
    /\ metrics.suppressed = Len(findings_list)
    /\ IsZero(metrics.f1)

(***************************************************************************)
(* Running test cases (RunSpec).                                           *)
(***************************************************************************)
\* the test case the loop, or the single button, is at
CurrentTc == batch.pending[batch.i]

\* the test case has been processed and save_run is next
AtSave == batch.pc \in {"save", "save_single"}

InBatch == batch.pc \in {"submit", "save"}

\* the answer to the last submission, and what stands in the session for it
FailureRecorded ==
    AtSave =>
        /\ CurrentTc \in DOMAIN results
        /\ batch.last.raised # "none" =>
              /\ results[CurrentTc].success = FALSE
              /\ results[CurrentTc].status_code = 0
              /\ results[CurrentTc].response = str_e(batch.last.raised)
        /\ (batch.last.raised = "none" /\ batch.last.status_code # 200) =>
              /\ results[CurrentTc].success = FALSE
              /\ results[CurrentTc].status_code = batch.last.status_code
              /\ results[CurrentTc].response = batch.last.text
        /\ (batch.last.raised = "none" /\ batch.last.status_code = 200) =>
              \/ results[CurrentTc].success = TRUE /\ results[CurrentTc].status_code = 200
              \/ /\ results[CurrentTc].success = FALSE
                 /\ results[CurrentTc].status_code = 0
                 /\ results[CurrentTc].response \in {str_e("JSONDecodeError"), str_e("AttributeError")}

\* pending keeps the order of items; the test cases before the current one
\* have an entry, those after it have none yet
PendingRunInOrder ==
    InBatch =>
        /\ batch.i \in 1..Len(batch.pending)
        /\ \E f \in [1..Len(batch.pending) -> 1..Len(Items)] :
              /\ \A k \in 1..Len(batch.pending) : batch.pending[k] = Items[f[k]]
              /\ \A k, l \in 1..Len(batch.pending) : k < l => f[k] < f[l]
        /\ \A k \in 1..Len(batch.pending) :
              /\ k < batch.i => batch.pending[k] \in DOMAIN results
              /\ k > batch.i => batch.pending[k] \notin DOMAIN results
              /\ k = batch.i => (batch.pending[k] \in DOMAIN results <=> batch.pc = "save")

\* whatever the last answer was, the loop goes on with the next pending test
\* case, and it ends only when every pending test case has an entry
BatchGoesOn ==
    (batch.pc = "save" /\ batch'.pc # "save") =>
        IF batch.i < Len(batch.pending)
        THEN /\ batch'.pc = "submit"
             /\ batch'.pending = batch.pending
             /\ batch'.i = batch.i + 1
        ELSE /\ batch'.pc = "idle"
             /\ \A k \in 1..Len(batch.pending) : batch.pending[k] \in DOMAIN results'

\* C19: in a Run All batch a non-200 response or an exception for a test case
\* is stored as a failed entry of that test case (success false, the status
\* code or 0, the response text or the text of the exception), the loop goes
\* on with the remaining pending test cases in the order of items, and when
\* it ends every test case that was pending has an entry.
C19_FailureRecordedBatchGoesOn ==
    /\ []FailureRecorded
    /\ []PendingRunInOrder
    /\ [][BatchGoesOn]_vars

\* the first pending test case got a 500, the second was run after it and
\* succeeded
C19_Witness ==
    /\ batch.pc = "save"
    /\ Len(batch.pending) = 2
    /\ batch.i = 2
    /\ results[batch.pending[1]].success = FALSE
    /\ results[batch.pending[1]].status_code = 500
    /\ results[batch.pending[2]].success = TRUE

\* the run persisted under the run name of the session
PersistedResults ==
    IF run_name_or_unknown(batch.run_name) \in DOMAIN runs
    THEN runs[run_name_or_unknown(batch.run_name)].results
    ELSE EmptyDict

\* whenever a test case can be submitted, the persisted run holds every
\* result of the session
PersistedBeforeNextSubmit ==
    batch.pc \in {"idle", "submit"} =>
        \A name \in DOMAIN results :
            /\ name \in DOMAIN PersistedResults
            /\ PersistedResults[name] = results[name]

\* a step that stores the entry of a test case leads to save_run, and
\* save_run receives the results of the session as they are
SavedAfterEachTc ==
    /\ (results' # results /\ results' # EmptyDict) => batch'.pc \in {"save", "save_single"}
    /\ AtSave =>
          /\ results' = results
          /\ run_name_or_unknown(batch.run_name) \in DOMAIN runs'
          /\ runs'[run_name_or_unknown(batch.run_name)].results = results
          /\ batch'.pc \in {"idle", "submit"}

\* C20: after every test case, in Run All and in a single run, successful or
\* not, save_run is called with the accumulated results before the next test
\* case is submitted, so whenever a test case can be submitted the persisted
\* run holds every result of the session.
C20_SavedAfterEveryTestCase ==
    /\ []PersistedBeforeNextSubmit
    /\ [][SavedAfterEachTc]_vars

\* in the middle of a batch: the first test case failed, its entry is
\* persisted, the second is about to be submitted
C20_Witness ==
    /\ batch.pc = "submit"
    /\ batch.i = 2
    /\ results[batch.pending[1]].success = FALSE
    /\ batch.pending[1] \in DOMAIN PersistedResults
    /\ PersistedResults[batch.pending[1]] = results[batch.pending[1]]
    /\ batch.pending[2] \notin DOMAIN PersistedResults

(***************************************************************************)
(* Aggregation over the test cases of a run (RunSpec).                     *)
(***************************************************************************)
\* the test cases of res that were scored against the ground truth
ScoredTcs(res) == { name \in DOMAIN res : res[name].gt_metrics # NoMetrics }

RECURSIVE SumOf(_, _, _)
\* the sum of one count of gt_metrics over the test cases tcs
SumOf(res, tcs, count) ==
    IF tcs = {} THEN 0
    ELSE LET name == CHOOSE n \in tcs : TRUE
         IN  res[name].gt_metrics[count] + SumOf(res, tcs \ {name}, count)

\* num / den of two sums, 0.0 when the denominator is 0
OfSums(num, den) == IF den > 0 THEN <<num, den>> ELSE <<0, 1>>

\* agg_gt as the summary level draws it is the sum of the counts
SummaryIsSum ==
    (summary # NoSummary /\ summary.has_gt) =>
        \A count \in {"tp", "fp", "fn", "expected", "found", "suppressed", "relevant_found"} :
            summary.agg_gt[count] = SumOf(results, ScoredTcs(results), count)

\* the metrics of a persisted run are the sums over its results and the
\* ratios of the sums
RunMetricsFromSums ==
    \A run_name \in DOMAIN runs :
        LET res == runs[run_name].results
            tp == SumOf(res, ScoredTcs(res), "tp")
            fp == SumOf(res, ScoredTcs(res), "fp")
            expected == SumOf(res, ScoredTcs(res), "expected")
        IN  /\ runs[run_name].metrics.tp = tp
            /\ runs[run_name].metrics.fp = fp
            /\ runs[run_name].metrics.fn = SumOf(res, ScoredTcs(res), "fn")
            /\ runs[run_name].metrics.expected = expected
            /\ runs[run_name].metrics.found = SumOf(res, ScoredTcs(res), "found")
            /\ runs[run_name].metrics.precision = OfSums(tp, tp + fp)
            /\ runs[run_name].metrics.recall = OfSums(tp, expected)

\* C17: the run-level counts tp, fp, fn, expected and found are the sums of
\* the per-test-case counts, and run-level precision and recall are computed
\* from the sums: tp / (tp + fp) and tp / expected of the sums, not a mean
\* of the per-test-case ratios.
C17_RunMetricsFromSums ==
    /\ SummaryIsSum
    /\ RunMetricsFromSums

\* (tp 2, fp 1, expected 3) and (tp 0, fp 0, expected 1) aggregated: tp 2,
\* fp 1, expected 4, precision 2/3, recall 2/4
C17_Witness ==
    /\ batch.pc = "idle"
    /\ summary # NoSummary
    /\ \E a, b \in DOMAIN results :
          /\ a # b
          /\ ScoredTcs(results) = {a, b}
          /\ results[a].gt_metrics.tp = 2 /\ results[a].gt_metrics.fp = 1
          /\ results[a].gt_metrics.expected = 3
          /\ results[a].gt_metrics.precision = <<2, 3>>
          /\ results[b].gt_metrics.tp = 0 /\ results[b].gt_metrics.fp = 0
          /\ results[b].gt_metrics.expected = 1
          /\ results[b].gt_metrics.precision = <<0, 1>>
    /\ summary.agg_gt.tp = 2 /\ summary.agg_gt.fp = 1 /\ summary.agg_gt.expected = 4
    /\ PersistedResults = results
    /\ runs[run_name_or_unknown(batch.run_name)].metrics.precision = <<2, 3>>
    /\ runs[run_name_or_unknown(batch.run_name)].metrics.recall = <<2, 4>>

(***************************************************************************)
(* tp against expected (ScoreSpec).                                        *)
(***************************************************************************)
\* a ratio of non-negative counts is at most 1
AtMostOne(r) == r[1] <= r[2]

\* C25 as stated: tp never exceeds expected, so fn is never negative and
\* recall never exceeds 1.
C25_TpAtMostExpected ==
    Scored =>
        /\ metrics.tp <= metrics.expected
        /\ metrics.fn >= 0
        /\ AtMostOne(metrics.recall)

\* C25 as amended: tp is bounded by the number of graded findings, not by
\* expected: tp <= tp + fp <= found and precision is at most 1, while
\* fn = expected - tp is negative exactly when tp exceeds expected and recall
\* is tp / expected uncapped, above 1 exactly when tp exceeds a positive
\* expected.
C25_TpBoundedByFindingsOnly ==
    Scored =>
        /\ metrics.tp >= 0 /\ metrics.fp >= 0
        /\ metrics.tp + metrics.fp <= Len(findings_list)
        /\ AtMostOne(metrics.precision)
        /\ metrics.fn = metrics.expected - metrics.tp
        /\ (metrics.fn < 0 <=> metrics.tp > metrics.expected)
        /\ metrics.recall = (IF metrics.expected > 0 THEN <<metrics.tp, metrics.expected>> ELSE <<0, 1>>)
        /\ (~AtMostOne(metrics.recall) <=> (metrics.expected > 0 /\ metrics.tp > metrics.expected))

\* two findings match the one ground-truth row of the test case: recall 2/1
C25_Witness ==
    /\ Scored
    /\ Len(findings_list) = 2
    /\ Cardinality(TcRowIndexes) = 1
    /\ metrics.tp = 2
    /\ metrics.recall = <<2, 1>>
    /\ metrics.fn < 0

(***************************************************************************)
(* What a TP has matched (ScoreSpec).                                      *)
(***************************************************************************)
\* ground-truth row j has the page of finding f and a sentence prefix that
\* is the finding's prefix or is contained in the finding's sentence
RowMatchesFinding(j, f) ==
    /\ Len(Strip(gt_df[j].sentence)) > 0
    /\ GtRowPage(gt_df[j]) = FindingPage(f)
    /\ \/ Lower(Slice(Strip(gt_df[j].sentence), PrefixLen)) = Slice(Lower(Strip(f.sentence)), PrefixLen)
       \/ Contains(Lower(Slice(Strip(gt_df[j].sentence), PrefixLen)), Lower(Strip(f.sentence)))

SameCategory(j, f) == Lower(Strip(gt_df[j].category)) = Lower(Strip(f.category))

TpIndexes == { i \in 1..Len(findings_list) : Scored /\ metrics.detailed_findings[i].gt_status = "TP" }

\* C26 as stated: a finding is TP only if a ground-truth row counted in
\* expected has its page, a matching sentence prefix and its category.
C26_TpMatchesRowOfItsCategory ==
    \A i \in TpIndexes :
        \E j \in TcRowIndexes :
            RowMatchesFinding(j, findings_list[i]) /\ SameCategory(j, findings_list[i])

\* C26 as amended: a finding is TP only if its category is a category of
\* some ground-truth row counted in expected and some row counted in
\* expected, of whatever category, has its page and a matching sentence
\* prefix; that row's TC Id is tc_number up to surrounding blanks.
C26_TpMatchesRowOfAnyCategory ==
    \A i \in TpIndexes :
        /\ \E j \in TcRowIndexes : SameCategory(j, findings_list[i])
        /\ \E j \in TcRowIndexes :
              /\ Strip(gt_df[j].tc_id) = Strip(tc_number)
              /\ RowMatchesFinding(j, findings_list[i])

\* a finding of the disclosures category is TP through the sentence of a
\* row of the misleading category only
C26_Witness ==
    \E i \in TpIndexes :
        /\ findings_list[i].category = Disclosures
        /\ \A j \in TcRowIndexes :
              RowMatchesFinding(j, findings_list[i]) => ~SameCategory(j, findings_list[i])

(***************************************************************************)
(* Test cases without findings in the aggregate (RunSpec).                 *)
(***************************************************************************)
\* the number of ground-truth rows of the test case of a file name
ExpectedOf(name) == Len(TcGt(gt_df, short_name_tc(name)))

\* the successfully run test cases that have ground-truth rows
SuccessfulWithGt ==
    { name \in DOMAIN results : results[name].success /\ has_gt(gt_keys, gt_df) /\ ExpectedOf(name) > 0 }

RECURSIVE ExpectedSum(_)
ExpectedSum(tcs) ==
    IF tcs = {} THEN 0
    ELSE LET name == CHOOSE n \in tcs : TRUE
         IN  ExpectedOf(name) + ExpectedSum(tcs \ {name})

\* C30: every successfully run test case that has ground-truth rows has
\* gt_metrics with its expected count, and with fn = expected when it has no
\* finding, and the aggregate of the summary level counts the expected rows
\* of all of them.
C30_EverySuccessfulTcCounted ==
    /\ \A name \in SuccessfulWithGt :
          /\ results[name].gt_metrics # NoMetrics
          /\ results[name].gt_metrics.expected = ExpectedOf(name)
    /\ (summary # NoSummary /\ summary.has_gt) =>
          summary.agg_gt.expected = ExpectedSum(SuccessfulWithGt)

(***************************************************************************)
(* The two implementations of the match predicate (MatchSpec).             *)
(***************************************************************************)
\* C23: for every test case, page, sentence and key set the curation page's
\* is_ground_truth returns, without raising, what modules.ground_truth's
\* is_ground_truth returns; a missing, empty or non-numeric page counts as 0
\* in both.
C23_SameAnswerInBothImplementations ==
    query # NoQuery =>
        /\ query.curation.raised = "none"
        /\ query.curation.value = is_gt

(***************************************************************************)
(* The poll loop (HarnessFairSpec, HarnessSpec).                           *)
(***************************************************************************)
Polling == poll.pc = "polling"

\* the status says the analysis is pending or being processed
AnalysisRuns(status) == status \in {"PENDING", "STARTED", "PROCESSING"}

\* the loop has made polls passes of POLL_INTERVAL seconds each, at most
\* POLL_TIMEOUT / POLL_INTERVAL of them
PollsBounded ==
    /\ poll.elapsed = poll.polls * POLL_INTERVAL
    /\ poll.polls <= POLL_TIMEOUT \div POLL_INTERVAL
    /\ Polling /\ poll.polls > 0 => AnalysisRuns(poll.status)

\* a pass of the loop is one poll after one interval, and the loop goes on
\* after it only if the status it read says the analysis still runs
ReturnsAtFirstTerminalPoll ==
    (Polling /\ poll' # poll) =>
        \/ /\ poll.polls < POLL_TIMEOUT \div POLL_INTERVAL
           /\ poll'.polls = poll.polls + 1
           /\ poll'.elapsed = poll.elapsed + POLL_INTERVAL
           /\ poll'.pc = "polling" <=> (poll'.ended = "none" /\ AnalysisRuns(poll'.status))
           /\ poll'.ended \in {"none", "terminal", "raised"}
           /\ poll'.ended = "terminal" => ~AnalysisRuns(poll'.status)
        \/ /\ poll.polls = POLL_TIMEOUT \div POLL_INTERVAL
           /\ poll'.polls = poll.polls
           /\ poll'.pc = "idle"
           /\ poll'.ended = "timeout"

\* C21: the poll loop of _post_analyze always ends: every pass is one poll
\* after one interval, the function returns at the first poll whose status is
\* not PENDING, STARTED or PROCESSING, and it makes at most
\* POLL_TIMEOUT / POLL_INTERVAL polls.
C21_PollLoopTerminates ==
    /\ []PollsBounded
    /\ [][ReturnsAtFirstTerminalPoll]_vars
    /\ Polling ~> ~Polling

\* the loop ended by timeout after 60 polls with the analysis still running
C21_Witness ==
    /\ poll.pc = "idle"
    /\ poll.ended = "timeout"
    /\ poll.polls = 60
    /\ AnalysisRuns(poll.status)

\* C29: when polling ends by timeout while the status still is PENDING,
\* STARTED or PROCESSING, the test case is recorded as failed.
C29_TimeoutRecordedAsFailed ==
    (poll.pc = "idle" /\ poll.ended = "timeout" /\ poll.name \in DOMAIN results) =>
        results[poll.name].success = FALSE

(***************************************************************************)
(* Cache invalidation by the curation page (CurateSpec).                   *)
(***************************************************************************)
\* a click on one of the writing widgets of the curation page
CurationWriteStep == PopoverDelete \/ BulkDelete \/ DetailsDelete \/ Lock \/ Unlock

\* a run of the curation page that finds the caches cleared reads the store:
\* it masks every tombstone of the store and shows the statuses of the store
RenderReadsStore ==
    /\ rendered'.deletion_keys = load_deletion_keys(db)
    /\ rendered'.cat_statuses = get_category_statuses(db)
    /\ \A r \in DrawnRows(rendered') : RowIdentity(r) \notin load_deletion_keys(db)

\* C24: every write action of the curation page (popover delete, bulk
\* delete, Browse Details delete, lock, unlock) clears the caches before the
\* page is run again; the caches stay cleared until that run, and the run
\* then reads the store as the write left it.
C24_WritesClearCaches ==
    /\ [][cache' = NoCache \/ ~CurationWriteStep]_vars
    /\ [][(cache = NoCache /\ cache' # NoCache) => (Render /\ RenderReadsStore)]_vars

\* the curation page was drawn after a delete and shows its tombstones masked
C24_Witness ==
    /\ rendered.drawn
    /\ rendered.app = "curation"
    /\ call.op = "soft_delete_batch"
    /\ call.ids # <<>>
    /\ \A i \in 1..Len(call.ids) : call.ids[i] \in rendered.deletion_keys
    /\ cache.deletion_keys = Hit(load_deletion_keys(db))

(***************************************************************************)
(* The bulk delete of the Curate tab (RolloutSpec).                        *)
(***************************************************************************)
\* a step that is a confirmed bulk delete
BulkDeleteStep == call' # call /\ "marked" \in DOMAIN call'

WrittenIdentities == { TombstoneIdentity(db'.golden_deletions[i]) : i \in WrittenTombstones }

\* the stored finding with the identity id
StoredRow(id) == CHOOSE r \in StoredRows : RowIdentity(r) = id

CurateLockStep == call' # call /\ call'.op = "lock_category"

\* the findings of the selected test cases that belong to the category (its
\* theme) and have a tombstone in the store
TombstonedOf(category) ==
    { r \in StoredRows :
        /\ r.tc_number \in CurationTcs
        /\ cat_to_theme(r.category) = cat_to_theme(category)
        /\ RowIdentity(r) \in load_deletion_keys(db) }

\* C28: when a category is locked from the Curate tab, the recorded
\* deletions, findings_before minus findings_after, are the number of
\* currently tombstoned findings of that category among the selected test
\* cases.
C28_DeletionsAreTheTombstoned ==
    [][CurateLockStep =>
          \A c \in DOMAIN get_category_statuses(db') :
              (c \notin DOMAIN get_category_statuses(db)
                  \/ get_category_statuses(db')[c] # get_category_statuses(db)[c]) =>
                  /\ get_category_statuses(db')[c].deletions
                         = get_category_statuses(db')[c].findings_before
                               - get_category_statuses(db')[c].findings_after
                  /\ get_category_statuses(db')[c].deletions = Cardinality(TombstonedOf(c))]_vars

(***************************************************************************)
(* The review flags (ReviewSpec).                                          *)
(***************************************************************************)
\* a step that is a "Save Changes"
SaveStep == call' # call /\ call'.op = "save_all_changes"

\* the rows of the table in which a review flag was changed
ChangedRows ==
    { i \in 1..Len(call'.edited_df) :
        \E f \in {"accept", "accept_with_changes", "reject", "reject_reason"} :
            call'.edited_df[i][f] # call'.original_df[i][f] }

\* the rows a load and extraction of every pass of every result gives for the store d
LoadedRows(d) ==
    UNION { { extract_findings_for_review(d.PO2_testing[i]._id,
                  d.PO2_testing[i][SOURCE_KEYS[k]], SOURCE_KEYS[k]).rows[j] :
                j \in 1..Len(extract_findings_for_review(d.PO2_testing[i]._id,
                         d.PO2_testing[i][SOURCE_KEYS[k]], SOURCE_KEYS[k]).rows) } :
            <<i, k>> \in { p \in (1..Len(d.PO2_testing)) \X (1..Len(SOURCE_KEYS)) :
                             SOURCE_KEYS[p[2]] \in DOMAIN d.PO2_testing[p[1]] } }

\* the stored section a row was extracted from
StoredSection(d, r) ==
    LET doc == CHOOSE x \in { d.PO2_testing[i] : i \in 1..Len(d.PO2_testing) } : x._id = r._doc_id
    IN  doc[r._source][r._art_key].sections[r._section_idx + 1]

\* the stored section of r in d2 is that in d1 but for the four review flags
OnlyReviewFlagsWritten(d1, d2, r) ==
    /\ DOMAIN StoredSection(d2, r)
          = DOMAIN StoredSection(d1, r) \cup {"accept", "accept_with_changes", "reject", "reject_reason"}
    /\ \A f \in DOMAIN StoredSection(d1, r) \ {"accept", "accept_with_changes", "reject", "reject_reason"} :
          StoredSection(d2, r)[f] = StoredSection(d1, r)[f]

\* C22: saving writes exactly the four review flags of each row in which a
\* flag differs from the original, at the row's identity path: the next load
\* and extraction returns every changed row as it was saved, the other
\* fields of its section are as before, every other section and document is
\* as before, and the count returned is the number of changed rows.
C22_ReviewFlagsRoundTrip ==
    [][SaveStep =>
          /\ call'.changed = Cardinality(ChangedRows)
          /\ \A i \in ChangedRows :
                /\ call'.edited_df[i] \in LoadedRows(db')
                /\ OnlyReviewFlagsWritten(db, db', call'.edited_df[i])
          /\ \A r \in LoadedRows(db) :
                RowIdentity(r) \notin { RowIdentity(call'.edited_df[i]) : i \in ChangedRows } =>
                    StoredSection(db', r) = StoredSection(db, r)
          /\ Len(db'.PO2_testing) = Len(db.PO2_testing)
          /\ [c \in DOMAIN db' \ {"PO2_testing"} |-> db'[c]] = [c \in DOMAIN db \ {"PO2_testing"} |-> db[c]]]_vars

\* one of two loaded rows was changed and saved, the findings were loaded
\* again and show the saved flags on a section that came with a string flag
C22_Witness ==
    /\ call.op = "save_all_changes"
    /\ call.changed = 1
    /\ Len(call.original_df) = 2
    /\ call.original_df[2].accept
    /\ ~call.edited_df[2].accept
    /\ extraction.caller = "review"
    /\ extraction.out.rows = <<call.original_df[1], call.edited_df[2]>>

====
